---- MODULE Spec2Model ----
(***************************************************************************)
(* Offline-first synchronisation core of the pre-order application.        *)
(*                                                                         *)
(* The module holds several specifications over one set of variables:      *)
(*   SpecQueue     the SyncManager: connectivity, timers, SSE debounce,    *)
(*                 the FIFO sync queue and the push / pull task bodies     *)
(*   SpecApply     PullService.applyOperation applied to a local store     *)
(*   SpecPull      PullService.pullIncremental against the server log      *)
(*   SpecCoalesce  PushService.coalesceOperations and toPushOperation,     *)
(*                 coalesced batch against one-by-one sending              *)
(*   SpecStore     repositories, outbox and PushService.pushOperations     *)
(* Each specification leaves the variables of the others unchanged.        *)
(***************************************************************************)
EXTENDS Integers, Sequences, FiniteSets, TLC

(***************************************************************************)
(* Bounds of the model (not program constants).                            *)
(***************************************************************************)
\* number of externally triggered enqueues (timer, SSE, manual, start, online)
MaxTasks == 3
\* number of pullService.start() calls that may be between their store read
\* and its answer at the same time
MaxStarts == 1
\* largest entity version drawn for an initial row or a server operation
MaxVersion == 2
\* largest value of the wall clock (ticks)
MaxNow == 2
\* number of repository calls (create, update, delete) made
MaxOps == 3
\* number of entries other clients add to the server's change log
MaxLog == 3
\* page size of the pull request (the program asks for 100 operations)
PageLimit == 2
\* number of pulls or snapshots that end in an error
MaxAborts == 1
\* repository calls made before and between the pushes of SpecBatch
MaxBatch == 2
\* failures recorded in the outbox of SpecOutbox (MAX_RETRIES is 5)
MaxFails == 7
\* records in the outbox of SpecOutbox
MaxRecords == 2
\* operations in the group handed to coalesceOperations in SpecGroup
MaxGroup == 3

VARIABLES
  \* ---- SyncManager (src/frontend/src/lib/sync/SyncManager.ts) ----
  connection,            \* "online" | "offline"
  pushIntervalId,        \* TRUE iff the interval timer is set
  sseConnected,          \* SSEService.eventSource # null
  pullDebounceTimer,     \* TRUE iff the debounce timeout is armed
  debounceTimeouts,      \* debounce timeouts the browser has scheduled
  syncQueue,             \* sequence of queued tasks [type, ticket, origin]
  isProcessingSyncQueue,
  running,               \* tasks whose fn() is suspended at an await
  isPushing,
  pullIsSyncing,         \* PullService.isSyncing
  syncState,             \* "idle" | "pushing" | "error"
  lastError,             \* TRUE iff lastError # null
  snapChecking,          \* pullService.start() calls awaiting hasLocalData()
  snapFetching,          \* a syncInitialSnapshot awaiting api.getSnapshot()
  snapshot,              \* SyncManager._snapshot, what getSnapshot() returns
  hasSyncTs,             \* metadata holds "last_sync_timestamp"
  onlineWait,            \* tickets of push tasks an online handler awaits
  \* ---- history variables of the SyncManager ----
  nextTicket,            \* arrival number given to the next enqueued task
  lastStarted,           \* ticket of the task started last
  onlineOrder,           \* what the latest online handler did, in order
  stopPhase,             \* "running" | "stopped" | "reconnected"
  stopMark,              \* nextTicket when stop() was last called
  afterStop,             \* kinds of effect seen since stop(): http/write/notify
  sseBurst               \* TRUE iff the armed timeout replaced an earlier one

VARIABLES
  \* ---- the local store (src/frontend/src/lib/db/index.ts) ----
  pre_orders,            \* table pre_orders: id -> row
  pre_order_flows,       \* table pre_order_flows: id -> row
  now,                   \* the wall clock, new Date()
  \* ---- PullService.applyOperation applied to the tables ----
  aOp,                   \* the server operation being applied
  aApplied,              \* how many times aOp has been applied
  aOnce                  \* the two tables after the first application

VARIABLES
  \* ---- outbox, repositories, PushService, server ----
  outbox,                \* table outbox, in insertion order
  calls,                 \* the repository call of each caller, at its await
  pushPc,                \* where pushOperations is suspended
  pushSend,              \* toSend of the running push
  pushRemove,            \* toRemoveIds of the running push
  pushResp,              \* results of the response in flight
  pushResult,            \* the PushResult of the push in progress or returned
  pendingOps,            \* what the last getPendingOperations() of SpecOutbox
                         \* returned
  srv,                   \* the server's rows: id -> entity
  srvPolicy,             \* what the server does with an UPDATE whose
                         \* expected_version is ahead of its version
  rowChanges,            \* history: entity-row writes of the repositories
  callsMade,             \* history: repository calls started so far
  \* ---- one-by-one sending, compared with the coalesced batch ----
  srvSeq,                \* a second server, sent the operations one by one
  coIdx,                 \* operations sent to srvSeq so far
  coSent                 \* the coalesced batch has been sent to srv

VARIABLES
  \* ---- PullService (src/unnamed/part_011) and the server's change log ----
  srvLog,                \* the server's change log, sync_id = position
  lastSyncId,            \* metadata "last_sync_id", the pull cursor
  pullPc,                \* where pullIncremental / syncInitialSnapshot is
                         \* suspended
  pullCtx,               \* locals of the running pullIncremental
  \* ---- history variables of the pull ----
  pullStart,             \* the tables and the cursor at the start
  aborts,                \* pulls and snapshots that ended in an error
  pullDone               \* the last pullIncremental ran to completion

tvars == <<pre_orders, pre_order_flows, now>>

svars == <<outbox, calls, pushPc, pushSend, pushRemove, pushResp, pushResult,
           pendingOps, srv,
           srvPolicy, rowChanges, callsMade>>

cvars == <<srvSeq, coIdx, coSent>>

pvars == <<srvLog, lastSyncId, pullPc, pullCtx, pullStart, aborts, pullDone>>

avars == <<aOp, aApplied, aOnce>>

qvars == <<connection, pushIntervalId, sseConnected, pullDebounceTimer,
           syncQueue, isProcessingSyncQueue, running, isPushing,
           pullIsSyncing, syncState, lastError, snapChecking, snapFetching,
           hasSyncTs, onlineWait, nextTicket, lastStarted, onlineOrder,
           stopPhase, stopMark, afterStop, debounceTimeouts, sseBurst,
           snapshot>>

vars == <<qvars, tvars, avars, svars, cvars, pvars>>

(***************************************************************************)
(* SyncManager.  The handlers run to their next await in one step; the     *)
(* fields they touch are gathered in a record so that the nested calls     *)
(* (push -> enqueueSync -> processSyncQueue -> task.fn) compose.           *)
(***************************************************************************)
Ctx ==
  [conn |-> connection, q |-> syncQueue, proc |-> isProcessingSyncQueue,
   run |-> running, isP |-> isPushing, isS |-> pullIsSyncing,
   st |-> syncState, err |-> lastError, wait |-> onlineWait,
   nt |-> nextTicket, ls |-> lastStarted, oo |-> onlineOrder,
   phase |-> stopPhase, fx |-> afterStop, snap |-> snapshot]

Commit(c) ==
  /\ connection' = c.conn
  /\ syncQueue' = c.q
  /\ isProcessingSyncQueue' = c.proc
  /\ running' = c.run
  /\ isPushing' = c.isP
  /\ pullIsSyncing' = c.isS
  /\ syncState' = c.st
  /\ lastError' = c.err
  /\ onlineWait' = c.wait
  /\ nextTicket' = c.nt
  /\ lastStarted' = c.ls
  /\ onlineOrder' = c.oo
  /\ stopPhase' = c.phase
  /\ afterStop' = c.fx
  /\ snapshot' = c.snap

\* an HTTP request, store write or notification made now
Effect(c, kinds) ==
  [c EXCEPT !.fx = IF c.phase = "running" THEN @ ELSE @ \cup kinds]

\* lastPushTime and pendingOperations are not fields of the handlers' record
buildSnapshot(c) ==
  [state |-> c.st, connection |-> c.conn, lastError |-> c.err,
   pullSyncing |-> c.isS]

notify(c) == Effect([c EXCEPT !.snap = buildSnapshot(c)], {"notify"})

updateState(c, newState) ==
  IF c.st # newState THEN notify([c EXCEPT !.st = newState]) ELSE c

updateConnection(c, newConnection) ==
  IF c.conn # newConnection THEN notify([c EXCEPT !.conn = newConnection])
  ELSE c

isOnline(c) == c.conn = "online"

\* the synchronous part of the push task: SyncManager.push's closure up to
\* "await this.pushService.pushOperations()"
PushTaskBegin(c, task) ==
  IF c.isP
  THEN [ctx |-> c, suspended |-> FALSE]
  ELSE [ctx |-> updateState([c EXCEPT !.isP = TRUE,
                                      !.run = @ \cup {[type |-> task.type,
                                                       ticket |-> task.ticket,
                                                       origin |-> task.origin,
                                                       pc |-> "p_read"]}],
                            "pushing"),
        suspended |-> TRUE]

\* the synchronous part of the pull task: pullIncremental up to
\* "await this.db.getPendingOperations()"
PullTaskBegin(c, task) ==
  IF c.isS
  THEN [ctx |-> c, suspended |-> FALSE]
  ELSE [ctx |-> [c EXCEPT !.isS = TRUE,
                          !.run = @ \cup {[type |-> task.type,
                                           ticket |-> task.ticket,
                                           origin |-> task.origin,
                                           pc |-> "l_read"]}],
        suspended |-> TRUE]

\* an online handler that pulls even when its push was rejected
OnlineContinuation_IgnoresFailure(c, task, ok) ==
  IF task.ticket \notin c.wait THEN c
  ELSE LET c1 == [c EXCEPT !.wait = @ \ {task.ticket}]
       IN IF isOnline(c1)
          THEN [c1 EXCEPT !.q = Append(@, [type |-> "pull", ticket |-> c1.nt,
                                           origin |-> "online"]),
                          !.nt = @ + 1,
                          !.oo = Append(@, "pull")]
          ELSE c1

\* the continuation of "await this.push()" in the online handler: a pull,
\* when the push task resolved and the connection is still online
OnlineContinuation(c, task, ok) ==
  IF task.ticket \notin c.wait THEN c
  ELSE LET c1 == [c EXCEPT !.wait = @ \ {task.ticket}]
       IN IF ok /\ isOnline(c1)
          THEN [c1 EXCEPT !.q = Append(@, [type |-> "pull", ticket |-> c1.nt,
                                           origin |-> "online"]),
                          !.nt = @ + 1,
                          !.oo = Append(@, "pull")]
          ELSE c1

RECURSIVE QueueLoop(_)
\* the while loop of processSyncQueue, run until a task suspends or the
\* queue is empty
QueueLoop(c) ==
  IF c.q = <<>> THEN [c EXCEPT !.proc = FALSE]
  ELSE LET task == Head(c.q)
           c1 == [c EXCEPT !.q = Tail(@), !.ls = task.ticket]
           r == IF task.type = "push" THEN PushTaskBegin(c1, task)
                ELSE PullTaskBegin(c1, task)
       IN IF r.suspended THEN r.ctx
          ELSE QueueLoop(OnlineContinuation(r.ctx, task, TRUE))

\* processSyncQueue without its "already processing" early return
processSyncQueue_NoGuard(c) == QueueLoop([c EXCEPT !.proc = TRUE])

processSyncQueue(c) ==
  IF c.proc THEN c ELSE QueueLoop([c EXCEPT !.proc = TRUE])

enqueueSync(c, type, origin) ==
  processSyncQueue([c EXCEPT !.q = Append(@, [type |-> type, ticket |-> c.nt,
                                              origin |-> origin]),
                             !.nt = @ + 1])

push(c, origin) ==
  IF ~isOnline(c) THEN c ELSE enqueueSync(c, "push", origin)

pull(c, origin) ==
  IF ~isOnline(c) THEN c ELSE enqueueSync(c, "pull", origin)

\* a task's promise settles: the awaiting online handler continues and the
\* loop of processSyncQueue goes on
TaskEnd(c, task, ok) ==
  QueueLoop(OnlineContinuation([c EXCEPT !.run = @ \ {task}], task, ok))

\* the catch and finally blocks of the push task
PushTaskThrow(c, task) ==
  TaskEnd([updateState([c EXCEPT !.err = TRUE], "error") EXCEPT !.isP = FALSE],
          task, FALSE)

QUnchangedTimers ==
  UNCHANGED <<pushIntervalId, sseConnected, pullDebounceTimer, stopMark,
              debounceTimeouts, sseBurst>>

QUnchangedSnap == UNCHANGED <<snapChecking, snapFetching, hasSyncTs>>

\* the tables and the other services are not touched by the SyncManager's
\* own bookkeeping
QUnchangedRest == UNCHANGED <<tvars, avars, svars, cvars, pvars>>

Budget == nextTicket <= MaxTasks

(* ---- events ---- *)

\* the setInterval callback of start()
TimerTick ==
  /\ pushIntervalId
  /\ Budget
  /\ Commit(push(Ctx, "timer"))
  /\ QUnchangedTimers /\ QUnchangedSnap
  /\ QUnchangedRest

\* a caller of SyncManager.push() (the mutation cache's onSuccess)
ManualPush ==
  /\ Budget
  /\ Commit(push(Ctx, "manual"))
  /\ QUnchangedTimers /\ QUnchangedSnap
  /\ QUnchangedRest

ManualPull ==
  /\ Budget
  /\ Commit(pull(Ctx, "manual"))
  /\ QUnchangedTimers /\ QUnchangedSnap
  /\ QUnchangedRest

\* window "online" listener
OnlineEvent ==
  /\ connection = "offline"
  /\ Budget
  /\ LET c1 == updateConnection(Ctx, "online")
         c2 == [c1 EXCEPT !.oo = <<"sse", "push">>,
                          !.wait = @ \cup {c1.nt},
                          !.phase = IF @ = "stopped" THEN "reconnected" ELSE @]
     IN Commit(push(c2, "online"))
  /\ sseConnected' = TRUE
  /\ UNCHANGED <<pushIntervalId, pullDebounceTimer, stopMark,
                 debounceTimeouts, sseBurst>>
  /\ QUnchangedSnap
  /\ QUnchangedRest

\* window "offline" listener
OfflineEvent ==
  /\ connection = "online"
  /\ Commit(updateConnection(Ctx, "offline"))
  /\ sseConnected' = FALSE
  /\ UNCHANGED <<pushIntervalId, pullDebounceTimer, stopMark,
                 debounceTimeouts, sseBurst>>
  /\ QUnchangedSnap
  /\ QUnchangedRest

\* the tag of the pull a debounce timeout enqueues: one event or a burst
SseOrigin(burst) == IF burst THEN "sse_burst" ELSE "sse"

\* handleSSEEvent without its clearTimeout: every event adds a timeout
handleSSEEvent_NoClear(timeouts, timer) ==
  timeouts + 1

\* handleSSEEvent on the timeouts the browser holds: the timeout of the
\* handle is cleared, a new one is scheduled
handleSSEEvent(timeouts, timer) ==
  IF timer THEN (timeouts - 1) + 1 ELSE timeouts + 1

\* EventSource.onmessage -> handleSSEEvent: (re)arm the debounce timer
SSEEvent ==
  /\ sseConnected
  /\ pullDebounceTimer' = TRUE
  /\ debounceTimeouts' = handleSSEEvent(debounceTimeouts, pullDebounceTimer)
  /\ sseBurst' = pullDebounceTimer
  /\ UNCHANGED <<connection, pushIntervalId, sseConnected, syncQueue,
                 isProcessingSyncQueue, running, isPushing, pullIsSyncing,
                 syncState, lastError, onlineWait, nextTicket, lastStarted,
                 onlineOrder, stopPhase, stopMark, afterStop, snapshot>>
  /\ QUnchangedSnap
  /\ QUnchangedRest

\* the debounce timeout fires
DebounceFire ==
  /\ debounceTimeouts > 0
  /\ Budget
  /\ pullDebounceTimer' = FALSE
  /\ debounceTimeouts' = debounceTimeouts - 1
  /\ sseBurst' = FALSE
  /\ Commit(IF isOnline(Ctx) THEN pull(Ctx, SseOrigin(sseBurst)) ELSE Ctx)
  /\ UNCHANGED <<pushIntervalId, sseConnected, stopMark>>
  /\ QUnchangedSnap
  /\ QUnchangedRest

\* SyncManager.start()
Start ==
  /\ ~pushIntervalId
  /\ Budget
  /\ snapChecking < MaxStarts
  /\ snapChecking' = snapChecking + 1
  /\ sseConnected' = (sseConnected \/ connection = "online")
  /\ pushIntervalId' = TRUE
  /\ Commit(push([Ctx EXCEPT !.phase = "running", !.fx = {}], "start"))
  /\ UNCHANGED <<pullDebounceTimer, stopMark, snapFetching, hasSyncTs,
                 debounceTimeouts, sseBurst>>
  /\ QUnchangedRest

\* a stop() that leaves the queued tasks in place
stopQueue_KeepsQueue(c) == c

\* stop(): "this.syncQueue = []"; the promises of the dropped tasks never
\* settle, so the online handlers awaiting them never continue
stopQueue(c) ==
  [c EXCEPT !.q = <<>>, !.wait = @ \cap {r.ticket : r \in c.run}]

\* SyncManager.stop()
Stop ==
  /\ pushIntervalId' = FALSE
  /\ sseConnected' = FALSE
  /\ pullDebounceTimer' = FALSE
  /\ debounceTimeouts' = IF pullDebounceTimer THEN debounceTimeouts - 1
                         ELSE debounceTimeouts
  /\ sseBurst' = FALSE
  /\ stopMark' = nextTicket
  /\ Commit(stopQueue([Ctx EXCEPT !.phase = "stopped", !.fx = {}]))
  /\ QUnchangedSnap
  /\ QUnchangedRest

(* ---- the push task, from await to await ---- *)

\* pushOperations: getPendingOperations answered
PushRead(r) ==
  /\ r \in running /\ r.pc = "p_read"
  /\ \/ \* nothing pending, or everything coalesced away
        \E wrote \in BOOLEAN :
          Commit(Effect([Ctx EXCEPT !.run = (@ \ {r}) \cup
                                            {[r EXCEPT !.pc = "p_count"]},
                                    !.err = FALSE],
                        IF wrote THEN {"write"} ELSE {}))
     \/ \* operations marked syncing and POST /sync/push sent
        Commit(Effect([Ctx EXCEPT !.run = (@ \ {r}) \cup
                                          {[r EXCEPT !.pc = "p_http"]}],
                      {"write", "http"}))
     \/ \* the local store throws
        Commit(PushTaskThrow(Ctx, r))
  /\ QUnchangedTimers /\ QUnchangedSnap
  /\ QUnchangedRest

\* pushOperations: the response (or a transport failure) is reconciled
PushHttp(r) ==
  /\ r \in running /\ r.pc = "p_http"
  /\ \/ Commit(Effect([Ctx EXCEPT !.run = (@ \ {r}) \cup
                                          {[r EXCEPT !.pc = "p_count"]},
                                  !.err = FALSE],
                      {"write"}))
     \/ Commit(PushTaskThrow(Ctx, r))
  /\ QUnchangedTimers /\ QUnchangedSnap
  /\ QUnchangedRest

\* updatePendingCount answered: state idle, notify, finally
PushCount(r) ==
  /\ r \in running /\ r.pc = "p_count"
  /\ \/ Commit(TaskEnd([notify(updateState(Ctx, "idle")) EXCEPT !.isP = FALSE],
                       r, TRUE))
     \/ Commit(PushTaskThrow(Ctx, r))
  /\ QUnchangedTimers /\ QUnchangedSnap
  /\ QUnchangedRest

(* ---- the pull task ---- *)

\* pullIncremental: getPendingOperations answered (outside the try block)
PullRead(r) ==
  /\ r \in running /\ r.pc = "l_read"
  /\ \/ Commit(Effect([Ctx EXCEPT !.run = (@ \ {r}) \cup
                                          {[r EXCEPT !.pc = "l_http"]}],
                      {"http"}))
     \/ \* the store throws before the try: isSyncing stays set
        Commit(TaskEnd(Ctx, r, FALSE))
  /\ QUnchangedTimers /\ QUnchangedSnap
  /\ QUnchangedRest

\* pullIncremental: one page answered
PullHttp(r) ==
  /\ r \in running /\ r.pc = "l_http"
  /\ \/ \* operations applied, cursor stored, has_more: next page
        /\ Commit(Effect(Ctx, {"write", "http"}))
        /\ UNCHANGED hasSyncTs
     \/ \* last (or empty) page: last_sync_timestamp written
        /\ Commit(TaskEnd(Effect([Ctx EXCEPT !.isS = FALSE], {"write"}),
                          r, TRUE))
        /\ hasSyncTs' = TRUE
     \/ \* request or apply fails: finally
        /\ Commit(TaskEnd([Ctx EXCEPT !.isS = FALSE], r, FALSE))
        /\ UNCHANGED hasSyncTs
  /\ QUnchangedTimers
  /\ UNCHANGED <<snapChecking, snapFetching>>
  /\ QUnchangedRest

(* ---- pullService.start(), called by start() outside the queue ---- *)

\* hasLocalData answered
SnapCheck ==
  /\ snapChecking > 0
  /\ snapChecking' = snapChecking - 1
  /\ IF hasSyncTs \/ pullIsSyncing
     THEN /\ Commit(Ctx)
          /\ UNCHANGED snapFetching
     ELSE /\ Commit(Effect([Ctx EXCEPT !.isS = TRUE], {"http"}))
          /\ snapFetching' = TRUE
  /\ QUnchangedTimers
  /\ UNCHANGED hasSyncTs
  /\ QUnchangedRest

\* api.getSnapshot answered
SnapFetch ==
  /\ snapFetching
  /\ snapFetching' = FALSE
  /\ \/ /\ Commit(Effect([Ctx EXCEPT !.isS = FALSE], {"write"}))
        /\ hasSyncTs' = TRUE
     \/ /\ Commit([Ctx EXCEPT !.isS = FALSE])
        /\ UNCHANGED hasSyncTs
  /\ QUnchangedTimers
  /\ UNCHANGED snapChecking
  /\ QUnchangedRest

(***************************************************************************)
(* Data model: rows of the two synchronised tables and the operations the  *)
(* server sends.  Timestamps are clock ticks, Null standing for null; a    *)
(* key absent from a data bag is Undef (numbers) or NoId (ids).            *)
(***************************************************************************)
Null == 0
Undef == 0 - 1
NoId == "undefined"

OrderIds == {"o1", "o2"}
FlowIds == {"f1"}

\* the updatable fields kept by the model; pre_order_id of a flow, also
\* updatable, is a field of its own in the row
PRE_ORDER_UPDATEABLE_FIELDS == {"status", "comment"}
PRE_ORDER_FLOW_UPDATEABLE_FIELDS == {"quantity"}

Vals == {0, 1}

NoOrder ==
  [present |-> FALSE, f |-> [k \in PRE_ORDER_UPDATEABLE_FIELDS |-> 0],
   version |-> 0, deleted_at |-> Null]

NoFlow ==
  [present |-> FALSE, pre_order_id |-> NoId,
   f |-> [k \in PRE_ORDER_FLOW_UPDATEABLE_FIELDS |-> 0],
   version |-> 0, deleted_at |-> Null]

\* the partial field bags over a set of field names
Bags(fields) == UNION {[D -> Vals] : D \in SUBSET fields}

\* pickFields: the fields of the list that are present in the source
pickFields(source, fields) ==
  [k \in (DOMAIN source) \cap fields |-> source[k]]

\* { ...row fields, ...picked }
Merge(f, picked) == [k \in DOMAIN f |-> IF k \in DOMAIN picked THEN picked[k]
                                                              ELSE f[k]]

\* "(x as string) || null" on a timestamp
OrNull(x) == IF x = Undef THEN Null ELSE x

applyPreOrderOperation(orders, flows, entityId, operationType, data, t) ==
  LET existing == orders[entityId] IN
  CASE operationType = "CREATE" ->
         [orders |-> [orders EXCEPT ![entityId] =
                        [present |-> TRUE,
                         f |-> Merge(NoOrder.f, data.f),
                         version |-> IF data.version = Undef THEN 1
                                     ELSE data.version,
                         deleted_at |-> OrNull(data.deleted_at)]],
          flows |-> flows]
    [] operationType = "UPDATE" ->
         IF ~existing.present THEN [orders |-> orders, flows |-> flows]
         ELSE [orders |-> [orders EXCEPT ![entityId] =
                 [present |-> TRUE,
                  f |-> Merge(existing.f,
                              pickFields(data.f, PRE_ORDER_UPDATEABLE_FIELDS)),
                  version |-> IF data.version = Undef THEN existing.version
                              ELSE data.version,
                  deleted_at |-> IF data.deleted_at = Undef
                                 THEN existing.deleted_at
                                 ELSE OrNull(data.deleted_at)]],
               flows |-> flows]
    [] operationType = "DELETE" ->
         IF ~existing.present THEN [orders |-> orders, flows |-> flows]
         ELSE [orders |-> [orders EXCEPT ![entityId] =
                             [existing EXCEPT !.deleted_at = t,
                                              !.version = @ + 1]],
               flows |-> [fl \in DOMAIN flows |->
                            IF flows[fl].present
                               /\ flows[fl].pre_order_id = entityId
                            THEN [flows[fl] EXCEPT !.deleted_at = t,
                                                   !.version = @ + 1]
                            ELSE flows[fl]]]

applyFlowOperation(orders, flows, entityId, operationType, data, t) ==
  LET existing == flows[entityId] IN
  CASE operationType = "CREATE" ->
         [orders |-> orders,
          flows |-> [flows EXCEPT ![entityId] =
                       [present |-> TRUE,
                        pre_order_id |-> data.pre_order_id,
                        f |-> Merge(NoFlow.f, data.f),
                        version |-> IF data.version = Undef THEN 1
                                    ELSE data.version,
                        deleted_at |-> OrNull(data.deleted_at)]]]
    [] operationType = "UPDATE" ->
         IF ~existing.present THEN [orders |-> orders, flows |-> flows]
         ELSE [orders |-> orders,
               flows |-> [flows EXCEPT ![entityId] =
                 [present |-> TRUE,
                  pre_order_id |-> IF data.pre_order_id = NoId
                                   THEN existing.pre_order_id
                                   ELSE data.pre_order_id,
                  f |-> Merge(existing.f,
                              pickFields(data.f,
                                         PRE_ORDER_FLOW_UPDATEABLE_FIELDS)),
                  version |-> IF data.version = Undef THEN existing.version
                              ELSE data.version,
                  deleted_at |-> IF data.deleted_at = Undef
                                 THEN existing.deleted_at
                                 ELSE OrNull(data.deleted_at)]]]
    [] operationType = "DELETE" ->
         IF ~existing.present THEN [orders |-> orders, flows |-> flows]
         ELSE [orders |-> orders,
               flows |-> [flows EXCEPT ![entityId] =
                            [existing EXCEPT !.deleted_at = t,
                                             !.version = @ + 1]]]

\* applyOperation: the two tables after the operation, applied at time t
applyOperation(orders, flows, op, t) ==
  IF op.entity_type = "pre_order"
  THEN applyPreOrderOperation(orders, flows, op.entity_id, op.operation_type,
                              op.data, t)
  ELSE IF op.entity_type = "pre_order_flow"
  THEN applyFlowOperation(orders, flows, op.entity_id, op.operation_type,
                          op.data, t)
  ELSE [orders |-> orders, flows |-> flows]

(* ---- the operations and rows a single application is tried on ---- *)

OperationTypes == {"CREATE", "UPDATE", "DELETE"}

\* operations of the pull response, PullOperation of sync/types.ts
ServerOps ==
  [entity_type : {"pre_order"}, entity_id : {"o1"},
   operation_type : OperationTypes,
   data : [f : Bags({"status"}), version : {Undef} \cup 1..MaxVersion,
           deleted_at : {Undef, Null, 1}, pre_order_id : {NoId}]]
  \cup
  [entity_type : {"pre_order_flow"}, entity_id : FlowIds,
   operation_type : OperationTypes,
   data : [f : Bags(PRE_ORDER_FLOW_UPDATEABLE_FIELDS),
           version : {Undef} \cup 1..MaxVersion,
           deleted_at : {Undef, Null, 1}, pre_order_id : {"o1"}]]

OrderRows ==
  {NoOrder} \cup
  [present : {TRUE}, f : [PRE_ORDER_UPDATEABLE_FIELDS -> {0}],
   version : 1..MaxVersion, deleted_at : {Null, 1}]

FlowRows ==
  {NoFlow} \cup
  [present : {TRUE}, pre_order_id : OrderIds,
   f : [PRE_ORDER_FLOW_UPDATEABLE_FIELDS -> {0}],
   version : 1..MaxVersion, deleted_at : {Null, 1}]

\* the pull applies the operation to the tables
ApplyServerOp ==
  /\ aApplied < 2
  /\ LET r == applyOperation(pre_orders, pre_order_flows, aOp, now)
     IN /\ pre_orders' = r.orders
        /\ pre_order_flows' = r.flows
        /\ aOnce' = IF aApplied = 0 THEN <<r.orders, r.flows>> ELSE aOnce
  /\ aApplied' = aApplied + 1
  /\ UNCHANGED <<now, aOp>>
  /\ UNCHANGED <<qvars, svars, cvars, pvars>>

\* time passes
ClockTick ==
  /\ now < MaxNow
  /\ now' = now + 1
  /\ UNCHANGED <<pre_orders, pre_order_flows, avars>>
  /\ UNCHANGED <<qvars, svars, cvars, pvars>>

(***************************************************************************)
(* The outbox and the push request.  An outbox record is                   *)
(*   [id, sequence_number, entity_type, entity_id, operation_type,         *)
(*    data: [f: field bag, version], status, retry_count, next_retry_at,   *)
(*    last_error]                                                          *)
(* with id the insertion rank (ids are time-ordered UUIDs),                *)
(* next_retry_at = Null and last_error = NoError for null.                 *)
(***************************************************************************)
MAX_RETRIES == 5
BASE_DELAY_MS == 1000
MAX_DELAY_MS == 300000

\* Date.now() in milliseconds, the clock counting seconds
DateNow(t) == t * 1000

Min(a, b) == IF a < b THEN a ELSE b

RECURSIVE Pow2(_)
Pow2(n) == IF n <= 0 THEN 1 ELSE 2 * Pow2(n - 1)

\* getNextSequenceNumber: last sequence_number + 1, or 1
getNextSequenceNumber(ob) ==
  IF ob = <<>> THEN 1
  ELSE LET last == CHOOSE i \in DOMAIN ob :
                     \A j \in DOMAIN ob :
                        ob[j].sequence_number <= ob[i].sequence_number
       IN ob[last].sequence_number + 1

\* last_error = null, and an absent message
NoError == "null"
NoMessage == "undefined"

\* errorMessage ?? null
OrNoError(m) == IF m = NoMessage THEN NoError ELSE m

\* the record Repository.recordOperation hands to addOutboxOperation, with
\* the sequence number read before
OutboxRecord(ob, seq, entityId, operation, data) ==
  [id |-> Len(ob) + 1, sequence_number |-> seq, entity_type |-> "pre_order",
   entity_id |-> entityId, operation_type |-> operation, data |-> data,
   status |-> "pending", retry_count |-> 0, next_retry_at |-> Null,
   last_error |-> NoError]

\* a filter that never returns a failed operation
IsPending_PendingOnly(o, t) ==
  o.status = "pending"

\* a filter that returns every failed operation
IsPending_IgnoresRetryAt(o, t) ==
  o.status \in {"pending", "failed"}

\* is the operation returned by getPendingOperations at time t
IsPending(o, t) ==
  \/ o.status = "pending"
  \/ /\ o.status = "failed"
     /\ o.next_retry_at # Null
     /\ o.next_retry_at <= DateNow(t)

\* sort order of [...pending, ...failedReady].sort(by sequence_number): the
\* sort is stable, pending records come first, each part in key order
Before(a, b) ==
  \/ a.sequence_number < b.sequence_number
  \/ /\ a.sequence_number = b.sequence_number
     /\ \/ a.status = "pending" /\ b.status = "failed"
        \/ a.status = b.status /\ a.id < b.id

RECURSIVE SortOps(_)
SortOps(S) ==
  IF S = {} THEN <<>>
  ELSE LET first == CHOOSE a \in S : \A b \in S \ {a} : Before(a, b)
       IN <<first>> \o SortOps(S \ {first})

getPendingOperations(ob, t) ==
  SortOps({ob[i] : i \in {j \in DOMAIN ob : IsPending(ob[j], t)}})

\* outbox.where("id").anyOf(ids).modify({status})
markOperations(ob, ids, status) ==
  [i \in DOMAIN ob |-> IF ob[i].id \in ids THEN [ob[i] EXCEPT !.status = status]
                       ELSE ob[i]]

\* a markOperationFailed that schedules a retry after every failure
markOperationFailed_NoLimit(ob, operationId, t, errorMessage) ==
  IF operationId \notin DOMAIN ob THEN ob
  ELSE LET newRetryCount == ob[operationId].retry_count + 1
           delayMs == Min(BASE_DELAY_MS * Pow2(newRetryCount - 1), MAX_DELAY_MS)
       IN [ob EXCEPT ![operationId] =
             [@ EXCEPT !.status = "failed",
                       !.retry_count = newRetryCount,
                       !.next_retry_at = DateNow(t) + delayMs,
                       !.last_error = OrNoError(errorMessage)]]

\* outbox.update(operationId, {status: "rejected", last_error})
markOperationRejected(ob, operationId, errorMessage) ==
  [i \in DOMAIN ob |->
     IF ob[i].id = operationId
     THEN [ob[i] EXCEPT !.status = "rejected",
                        !.last_error = OrNoError(errorMessage)]
     ELSE ob[i]]

markOperationFailed(ob, operationId, t, errorMessage) ==
  IF operationId \notin DOMAIN ob THEN ob
  ELSE LET newRetryCount == ob[operationId].retry_count + 1
           delayMs == Min(BASE_DELAY_MS * Pow2(newRetryCount - 1), MAX_DELAY_MS)
       IN [ob EXCEPT ![operationId] =
             [@ EXCEPT !.status = "failed",
                       !.retry_count = newRetryCount,
                       !.next_retry_at = IF newRetryCount <= MAX_RETRIES
                                         THEN DateNow(t) + delayMs
                                         ELSE Null,
                       !.last_error = OrNoError(errorMessage)]]

\* a catch block that marks the first operation of the batch only
markAllFailed_FirstOnly(ob, ops, t, errorMessage) ==
  IF ops = <<>> THEN ob
  ELSE markOperationFailed(ob, Head(ops).id, t, errorMessage)

RECURSIVE markAllFailed(_, _, _, _)
\* the loop of the catch block of pushOperations
markAllFailed(ob, ops, t, errorMessage) ==
  IF ops = <<>> THEN ob
  ELSE markAllFailed(markOperationFailed(ob, Head(ops).id, t, errorMessage),
                     Tail(ops), t, errorMessage)

(* ---- coalesceOperations ---- *)

Key(o) == <<o.entity_type, o.entity_id>>

\* { ...a, ...b }
Spread(a, b) ==
  [k \in (DOMAIN a) \cup (DOMAIN b) |-> IF k \in DOMAIN b THEN b[k] ELSE a[k]]

RECURSIVE MergedData_FirstWins(_, _)
\* a merge in which the value written first wins
MergedData_FirstWins(data, later) ==
  IF later = <<>> THEN data
  ELSE MergedData_FirstWins([f |-> Spread(Head(later).data.f, data.f),
                             version |-> data.version], Tail(later))

RECURSIVE MergedData(_, _)
\* the data of the first operation with the data of the later ones spread
\* over it, their version stripped
MergedData(data, later) ==
  IF later = <<>> THEN data
  ELSE MergedData([f |-> Spread(data.f, Head(later).data.f),
                   version |-> data.version], Tail(later))

IdsOf(ops) == {ops[i].id : i \in DOMAIN ops}

RECURSIVE UpdatePrefix(_)
\* length of the run of UPDATEs at the start of the group
UpdatePrefix(group) ==
  IF group = <<>> \/ Head(group).operation_type # "UPDATE" THEN 0
  ELSE 1 + UpdatePrefix(Tail(group))

\* { ...op, timestamp: last.timestamp }; the outbox records of the store
\* specifications carry no timestamp, those of SpecGroup do
WithTimestamp(op, last) ==
  IF "timestamp" \in DOMAIN op
  THEN [op EXCEPT !.timestamp = last.timestamp] ELSE op

\* a coalescing that sends every operation of the group
coalesceGroup_NoCancel(group) ==
  [toSend |-> group, toRemoveIds |-> {}]

coalesceGroup(group) ==
  LET first == group[1]
      last == group[Len(group)]
      n == UpdatePrefix(group)
      updates == SubSeq(group, 1, n)
      rest == SubSeq(group, n + 1, Len(group))
  IN IF Len(group) = 1
     THEN [toSend |-> group, toRemoveIds |-> {}]
     ELSE IF first.operation_type = "CREATE" /\ last.operation_type = "DELETE"
     THEN [toSend |-> <<>>, toRemoveIds |-> IdsOf(group)]
     ELSE IF first.operation_type = "CREATE"
     THEN [toSend |-> <<WithTimestamp(
                          [first EXCEPT !.data =
                             MergedData(first.data, Tail(group))], last)>>,
           toRemoveIds |-> IdsOf(Tail(group))]
     ELSE IF rest # <<>> /\ rest[Len(rest)].operation_type = "DELETE"
     THEN [toSend |-> rest, toRemoveIds |-> IdsOf(updates)]
     ELSE IF n > 1
     THEN [toSend |-> <<WithTimestamp(
                          [updates[1] EXCEPT !.data =
                             MergedData(updates[1].data, Tail(updates))],
                          updates[n])>>
                      \o rest,
           toRemoveIds |-> IdsOf(Tail(updates))]
     ELSE [toSend |-> updates \o rest, toRemoveIds |-> {}]

RECURSIVE SeqFilter(_, _, _)
\* the operations with (keep) or without the key, in order
SeqFilter(ops, key, keep) ==
  IF ops = <<>> THEN <<>>
  ELSE IF (Key(Head(ops)) = key) = keep
       THEN <<Head(ops)>> \o SeqFilter(Tail(ops), key, keep)
       ELSE SeqFilter(Tail(ops), key, keep)

RECURSIVE coalesceOperations(_)
\* the groups are visited in the order their first operation arrives
coalesceOperations(operations) ==
  IF operations = <<>> THEN [toSend |-> <<>>, toRemoveIds |-> {}]
  ELSE LET key == Key(Head(operations))
           g == coalesceGroup(SeqFilter(operations, key, TRUE))
           r == coalesceOperations(SeqFilter(operations, key, FALSE))
       IN [toSend |-> g.toSend \o r.toSend,
           toRemoveIds |-> g.toRemoveIds \cup r.toRemoveIds]

\* toPushOperation: expected_version is data.version, data loses version
toPushOperation(op) ==
  [id |-> op.id, entity_type |-> op.entity_type, entity_id |-> op.entity_id,
   operation_type |-> op.operation_type, data |-> op.data.f,
   expected_version |-> op.data.version]

toPushOperations(ops) == [i \in DOMAIN ops |-> toPushOperation(ops[i])]

(***************************************************************************)
(* The server's conflict resolver (specification section 4.5; the backend  *)
(* is not part of the sources).  An entity is                              *)
(*   [present, deleted, version, f, lastMod: field -> version of its      *)
(*    last modification]                                                   *)
(***************************************************************************)
NoEntity ==
  [present |-> FALSE, deleted |-> FALSE, version |-> 0, f |-> NoOrder.f,
   lastMod |-> [k \in PRE_ORDER_UPDATEABLE_FIELDS |-> 0]]

\* the message the server attaches to a result that is not a success
ServerMessage(status) ==
  IF status = "success" THEN NoMessage ELSE "server: " \o status

ServerResult(op, status, newVersion, conflicts) ==
  [operation_id |-> op.id, status |-> status, new_version |-> newVersion,
   conflicts |-> conflicts, message |-> ServerMessage(status)]

\* the accepted part of a patch is written and the version bumped
ServerWrite(e, accepted) ==
  [e EXCEPT !.f = Merge(e.f, accepted),
            !.version = e.version + 1,
            !.lastMod = [k \in DOMAIN e.lastMod |->
                           IF k \in DOMAIN accepted THEN e.version + 1
                           ELSE e.lastMod[k]]]

ServerCreate(e, op) ==
  IF e.present
  THEN [e |-> e, res |-> ServerResult(op, "error", Undef, <<>>)]
  ELSE [e |-> [present |-> TRUE, deleted |-> FALSE, version |-> 1,
               f |-> Merge(NoOrder.f, op.data),
               lastMod |-> [k \in PRE_ORDER_UPDATEABLE_FIELDS |-> 1]],
        res |-> ServerResult(op, "success", 1, <<>>)]

ServerUpdate(e, op, policy) ==
  LET exp == op.expected_version
      lost == {k \in (DOMAIN op.data) \cap DOMAIN e.f : e.lastMod[k] > exp}
      accepted == [k \in ((DOMAIN op.data) \cap DOMAIN e.f) \ lost |->
                     op.data[k]]
      all == [k \in (DOMAIN op.data) \cap DOMAIN e.f |-> op.data[k]]
  IN IF ~e.present \/ e.deleted
     THEN [e |-> e, res |-> ServerResult(op, "error", Undef, <<>>)]
     ELSE IF exp = e.version
     THEN [e |-> ServerWrite(e, all),
           res |-> ServerResult(op, "success", e.version + 1, <<>>)]
     ELSE IF exp # Undef /\ exp < e.version
     THEN [e |-> ServerWrite(e, accepted),
           res |-> ServerResult(op, "conflict", e.version + 1,
                                [k \in lost |-> e.f[k]])]
     ELSE IF policy = "apply"
     THEN [e |-> ServerWrite(e, all),
           res |-> ServerResult(op, "success", e.version + 1, <<>>)]
     ELSE [e |-> e, res |-> ServerResult(op, "error", Undef, <<>>)]

ServerDelete(e, op) ==
  IF ~e.present
  THEN [e |-> e, res |-> ServerResult(op, "error", Undef, <<>>)]
  ELSE IF op.expected_version = e.version
  THEN [e |-> [e EXCEPT !.deleted = TRUE, !.version = e.version + 1],
        res |-> ServerResult(op, "success", e.version + 1, <<>>)]
  ELSE [e |-> e, res |-> ServerResult(op, "conflict", e.version, <<>>)]

ServerApply(e, op, policy) ==
  CASE op.operation_type = "CREATE" -> ServerCreate(e, op)
    [] op.operation_type = "UPDATE" -> ServerUpdate(e, op, policy)
    [] op.operation_type = "DELETE" -> ServerDelete(e, op)

RECURSIVE ServerBatch(_, _, _)
\* POST /sync/push: the operations are resolved in order, one result each
ServerBatch(rows, ops, policy) ==
  IF ops = <<>> THEN [rows |-> rows, results |-> <<>>]
  ELSE LET op == Head(ops)
           r == ServerApply(rows[op.entity_id], op, policy)
           rest == ServerBatch([rows EXCEPT ![op.entity_id] = r.e],
                               Tail(ops), policy)
       IN [rows |-> rest.rows, results |-> <<r.res>> \o rest.results]

(***************************************************************************)
(* Repositories.  Every await of Repository.create / update / delete and   *)
(* of SyncDB.addOutboxOperation is a step of its own; calls of different   *)
(* callers interleave at these steps.                                      *)
(***************************************************************************)
Callers == {"c1", "c2"}

IdleCall ==
  [pc |-> "idle", operation |-> "CREATE", entity_id |-> "o1",
   row |-> NoOrder, data |-> [f |-> <<>>, version |-> Undef], seq |-> 0]

\* the ids generateId() hands out
NewIds == {"o1"}

\* the field values the callers pass
CreateInputs == {[k \in PRE_ORDER_UPDATEABLE_FIELDS |-> 0]}
UpdateInputs == {[k \in {"status"} |-> 1]}

InFlight == {c \in Callers : calls[c].pc # "idle"}

\* one more repository call may be made
Room == callsMade < MaxOps

\* callers are named in the order they are needed: "c2" is a call made
\* while the call of "c1" is still running
MayCall(c) == calls[c].pc = "idle" /\ Room /\ (c = "c2" => calls["c1"].pc # "idle")

\* generateId(): an id no row, record, call or server row has used
FreshIds ==
  {id \in NewIds :
     /\ ~pre_orders[id].present
     /\ rowChanges[id] = 0
     /\ ~srv[id].present
     /\ \A i \in DOMAIN outbox : outbox[i].entity_id # id
     /\ \A c \in Callers : calls[c].pc = "idle" \/ calls[c].entity_id # id}

SUnchangedPush ==
  UNCHANGED <<pushPc, pushSend, pushRemove, pushResp, pushResult, pendingOps,
              srv, srvPolicy>>

SUnchangedRest ==
  UNCHANGED <<qvars, avars, cvars, pvars, pre_order_flows, now>>

\* create: the entity is built and "await table.add(entity)" has written it
RepoCreate(c) ==
  /\ MayCall(c)
  /\ FreshIds # {}
  /\ \E fields \in CreateInputs :
       LET id == CHOOSE i \in FreshIds : TRUE
           entity == [present |-> TRUE, f |-> fields, version |-> 1,
                      deleted_at |-> Null]
       IN /\ pre_orders' = [pre_orders EXCEPT ![id] = entity]
          /\ rowChanges' = [rowChanges EXCEPT ![id] = @ + 1]
          /\ calls' = [calls EXCEPT ![c] =
                         [pc |-> "seq", operation |-> "CREATE",
                          entity_id |-> id, row |-> entity,
                          data |-> [f |-> fields, version |-> 1], seq |-> 0]]
  /\ UNCHANGED outbox
  /\ callsMade' = callsMade + 1
  /\ SUnchangedPush /\ SUnchangedRest

\* update: "await table.get(id)" has answered and the merged row is built
RepoUpdateGet(c) ==
  /\ MayCall(c)
  /\ \E id \in OrderIds, patch \in UpdateInputs :
       /\ pre_orders[id].present
       /\ LET current == pre_orders[id]
              updated == [current EXCEPT !.f = Merge(current.f, patch),
                                         !.version = current.version + 1]
          IN calls' = [calls EXCEPT ![c] =
                         [pc |-> "put", operation |-> "UPDATE",
                          entity_id |-> id, row |-> updated,
                          data |-> [f |-> updated.f,
                                    version |-> updated.version],
                          seq |-> 0]]
  /\ UNCHANGED <<pre_orders, outbox, rowChanges>>
  /\ callsMade' = callsMade + 1
  /\ SUnchangedPush /\ SUnchangedRest

\* update: "await table.put(updated)" has written the row
RepoUpdatePut(c) ==
  /\ calls[c].pc = "put"
  /\ pre_orders' = [pre_orders EXCEPT ![calls[c].entity_id] = calls[c].row]
  /\ rowChanges' = [rowChanges EXCEPT ![calls[c].entity_id] = @ + 1]
  /\ calls' = [calls EXCEPT ![c].pc = "seq"]
  /\ UNCHANGED outbox
  /\ UNCHANGED callsMade
  /\ SUnchangedPush /\ SUnchangedRest

\* delete: "await table.get(id)" has answered
RepoDeleteGet(c) ==
  /\ MayCall(c)
  /\ \E id \in OrderIds :
       /\ pre_orders[id].present
       /\ calls' = [calls EXCEPT ![c] =
                      [pc |-> "seq", operation |-> "DELETE",
                       entity_id |-> id, row |-> pre_orders[id],
                       data |-> [f |-> <<>>,
                                 version |-> pre_orders[id].version],
                       seq |-> 0]]
  /\ UNCHANGED <<pre_orders, outbox, rowChanges>>
  /\ callsMade' = callsMade + 1
  /\ SUnchangedPush /\ SUnchangedRest

\* addOutboxOperation: "await this.getNextSequenceNumber()" has answered
RepoReadSeq(c) ==
  /\ calls[c].pc = "seq"
  /\ calls' = [calls EXCEPT ![c].pc = "add",
                            ![c].seq = getNextSequenceNumber(outbox)]
  /\ UNCHANGED <<pre_orders, outbox, rowChanges>>
  /\ UNCHANGED callsMade
  /\ SUnchangedPush /\ SUnchangedRest

\* addOutboxOperation: "await this.outbox.add(...)" has written the record
RepoAddOutbox(c) ==
  /\ calls[c].pc = "add"
  /\ outbox' = Append(outbox,
                      OutboxRecord(outbox, calls[c].seq, calls[c].entity_id,
                                   calls[c].operation, calls[c].data))
  /\ calls' = [calls EXCEPT ![c] =
                 IF calls[c].operation = "DELETE"
                 THEN [@ EXCEPT !.pc = "del"] ELSE IdleCall]
  /\ UNCHANGED <<pre_orders, rowChanges>>
  /\ UNCHANGED callsMade
  /\ SUnchangedPush /\ SUnchangedRest

\* delete: "await table.delete(id)" has removed the row
RepoDeleteRow(c) ==
  /\ calls[c].pc = "del"
  /\ pre_orders' = [pre_orders EXCEPT ![calls[c].entity_id] = NoOrder]
  /\ rowChanges' = [rowChanges EXCEPT ![calls[c].entity_id] = @ + 1]
  /\ calls' = [calls EXCEPT ![c] = IdleCall]
  /\ UNCHANGED outbox
  /\ UNCHANGED callsMade
  /\ SUnchangedPush /\ SUnchangedRest

\* the store operation the call awaits is rejected (IO error, quota, the
\* database closing): the call throws, what was written before stays
RepoFails(c) ==
  /\ calls[c].pc \in {"put", "seq", "add", "del"}
  /\ calls' = [calls EXCEPT ![c] = IdleCall]
  /\ UNCHANGED <<pre_orders, outbox, rowChanges>>
  /\ UNCHANGED callsMade
  /\ SUnchangedPush /\ SUnchangedRest

(***************************************************************************)
(* PushService.pushOperations, from await to await.                        *)
(***************************************************************************)
\* the PushResult a call of pushOperations starts with
NoResult == [successCount |-> 0, failedCount |-> 0]

SUnchangedRepo == UNCHANGED <<calls, rowChanges, callsMade, pendingOps>>

\* getPendingOperations has answered; the batch is coalesced
PushBegin ==
  /\ pushPc = "idle"
  /\ \E operations \in {getPendingOperations(outbox, now)} :
       /\ operations # <<>>
       /\ \E co \in {coalesceOperations(operations)} :
            /\ pushSend' = co.toSend
            /\ pushRemove' = co.toRemoveIds
            /\ pushPc' = IF co.toRemoveIds # {} THEN "remove" ELSE "syncing"
  /\ pushResult' = NoResult
  /\ UNCHANGED <<outbox, pre_orders, pushResp, srv, srvPolicy>>
  /\ SUnchangedRepo /\ SUnchangedRest

\* markOperationsSynced(toRemoveIds) has written
PushMarkRemoved ==
  /\ pushPc = "remove"
  /\ outbox' = markOperations(outbox, pushRemove, "synced")
  /\ pushPc' = IF pushSend = <<>> THEN "idle" ELSE "syncing"
  /\ pushResult' = IF pushSend = <<>>
                   THEN [pushResult EXCEPT
                           !.successCount = Cardinality(pushRemove)]
                   ELSE pushResult
  /\ UNCHANGED <<pre_orders, pushSend, pushRemove, pushResp, srv, srvPolicy>>
  /\ SUnchangedRepo /\ SUnchangedRest

\* markOperationsSyncing(ids) has written; POST /sync/push is sent
PushMarkSyncing ==
  /\ pushPc = "syncing"
  /\ outbox' = markOperations(outbox, IdsOf(pushSend), "syncing")
  /\ pushPc' = "request"
  /\ UNCHANGED <<pre_orders, pushSend, pushRemove, pushResp, pushResult, srv,
                 srvPolicy>>
  /\ SUnchangedRepo /\ SUnchangedRest

\* the server resolves the batch and answers
ServerPush ==
  /\ pushPc = "request"
  /\ \E r \in {ServerBatch(srv, toPushOperations(pushSend), srvPolicy)} :
       /\ srv' = r.rows
       /\ pushResp' = r.results
  /\ pushPc' = "response"
  /\ UNCHANGED <<outbox, pre_orders, pushSend, pushRemove, pushResult,
                 srvPolicy>>
  /\ SUnchangedRepo /\ SUnchangedRest

\* api.syncPush rejects: the request or the response is lost
PushTransportFails ==
  /\ pushPc \in {"request", "response"}
  /\ pushPc' = "failed"
  /\ pushResp' = <<>>
  /\ UNCHANGED <<outbox, pre_orders, pushSend, pushRemove, pushResult, srv,
                 srvPolicy>>
  /\ SUnchangedRepo /\ SUnchangedRest

\* is the result handled as success by processOperationResult
Handled(res, outboxOp) ==
  \/ res.status = "success"
  \/ res.status = "conflict" /\ outboxOp.operation_type # "DELETE"

\* table.update(id, changes): nothing happens when the row is absent
TableUpdateVersion(orders, id, version) ==
  IF orders[id].present /\ version # Undef
  THEN [orders EXCEPT ![id].version = version] ELSE orders

\* a reconciliation that sets the version and leaves the fields alone
processResultRows_VersionOnly(orders, res, outboxOp) ==
  IF Handled(res, outboxOp)
  THEN TableUpdateVersion(orders, outboxOp.entity_id, res.new_version)
  ELSE orders

\* processOperationResult on the tables
processResultRows(orders, res, outboxOp) ==
  LET id == outboxOp.entity_id IN
  IF Handled(res, outboxOp)
  THEN LET o1 == TableUpdateVersion(orders, id, res.new_version)
       IN IF res.status = "conflict" /\ DOMAIN res.conflicts # {}
             /\ o1[id].present
          THEN [o1 EXCEPT ![id].f = Merge(@, res.conflicts)]
          ELSE o1
  ELSE IF res.status = "conflict" /\ outboxOp.operation_type = "DELETE"
          /\ orders[id].present
       THEN [orders EXCEPT ![id].deleted_at = Null,
                           ![id].version = IF res.new_version = Undef THEN @
                                           ELSE res.new_version]
       ELSE orders

\* processOperationResult on the outbox
processResultOutbox(ob, res, outboxOp) ==
  IF Handled(res, outboxOp)
  THEN markOperations(ob, {res.operation_id}, "synced")
  ELSE markOperationRejected(ob, res.operation_id, res.message)

RECURSIVE processResults(_, _, _, _)
\* the results of the response, each with the operation that was sent
processResults(orders, ob, results, sent) ==
  IF results = <<>> THEN [orders |-> orders, outbox |-> ob]
  ELSE processResults(processResultRows(orders, Head(results), Head(sent)),
                      processResultOutbox(ob, Head(results), Head(sent)),
                      Tail(results), Tail(sent))

successCount ==
  Cardinality({i \in DOMAIN pushResp : Handled(pushResp[i], pushSend[i])})

\* the results are reconciled; then last_push_timestamp is written, or the
\* write is rejected and the catch block takes over
PushReconcile ==
  /\ pushPc = "response"
  /\ \E r \in {processResults(pre_orders, outbox, pushResp, pushSend)} :
       /\ pre_orders' = r.orders
       /\ outbox' = r.outbox
  /\ pushResult' = [successCount |-> successCount,
                     failedCount |-> Len(pushResp) - successCount]
  /\ \/ pushPc' = "idle"
     \/ successCount > 0 /\ pushPc' = "failed"
  /\ pushResp' = <<>>
  /\ UNCHANGED <<pushSend, pushRemove, srv, srvPolicy>>
  /\ SUnchangedRepo /\ SUnchangedRest

\* error.message of what the try block of pushOperations threw
PushError == "push failed"

\* the catch block: markOperationFailed for every operation of toSend
PushMarkFailed ==
  /\ pushPc = "failed"
  /\ outbox' = markAllFailed(outbox, pushSend, now, PushError)
  /\ pushResult' = [successCount |-> 0, failedCount |-> Len(pushSend)]
  /\ pushPc' = "idle"
  /\ UNCHANGED <<pre_orders, pushSend, pushRemove, pushResp, srv, srvPolicy>>
  /\ SUnchangedRepo /\ SUnchangedRest

\* time passes
StoreTick ==
  /\ now < MaxNow
  /\ now' = now + 1
  /\ UNCHANGED <<pre_orders, pre_order_flows, svars, qvars, avars, cvars,
               pvars>>

(***************************************************************************)
(* The coalesced batch against one-by-one sending.  The repositories fill  *)
(* the outbox while nothing is sent; then the pending operations go to the *)
(* server srv as the batch coalesceOperations builds, and to a second      *)
(* server srvSeq one by one in sequence order.  No other client writes.    *)
(***************************************************************************)

\* an order that was created and pushed before: local and server version 1
SyncedFields == [k \in PRE_ORDER_UPDATEABLE_FIELDS |-> 0]

SyncedRow ==
  [present |-> TRUE, f |-> SyncedFields, version |-> 1, deleted_at |-> Null]

SyncedEntity == ServerCreate(NoEntity, [id |-> 1, data |-> SyncedFields]).e

SyncedRecord ==
  [OutboxRecord(<<>>, 1, "o2", "CREATE", [f |-> SyncedFields, version |-> 1])
     EXCEPT !.status = "synced"]

\* the store is empty, or holds the order "o2" in sync with the server
CoalesceStart(synced) ==
  /\ pre_order_flows = [i \in FlowIds |-> NoFlow]
  /\ now = 1
  /\ pre_orders = [i \in OrderIds |->
                     IF synced /\ i = "o2" THEN SyncedRow ELSE NoOrder]
  /\ outbox = IF synced THEN <<SyncedRecord>> ELSE <<>>
  /\ srv = [i \in OrderIds |->
              IF synced /\ i = "o2" THEN SyncedEntity ELSE NoEntity]
  /\ srvSeq = srv
  /\ rowChanges = [i \in OrderIds |-> IF synced /\ i = "o2" THEN 1 ELSE 0]
  /\ calls = [c \in Callers |-> IdleCall]
  /\ callsMade = 0
  /\ pushPc = "idle"
  /\ pushSend = <<>>
  /\ pushRemove = {}
  /\ pushResp = <<>>
  /\ pushResult = NoResult
  /\ pendingOps = <<>>
  /\ coIdx = 0
  /\ coSent = FALSE

\* nothing has been sent yet: the repositories still work offline
Offline == coIdx = 0 /\ ~coSent

\* the operations a push would read
Pending == getPendingOperations(outbox, now)

CUnchangedStore ==
  UNCHANGED <<qvars, tvars, avars, pvars, outbox, calls, pushPc, pushSend,
              pushRemove, pushResp, pushResult, pendingOps, srvPolicy,
              rowChanges,
              callsMade>>

\* the next pending operation is pushed on its own
CoSendSequential ==
  /\ calls["c1"].pc = "idle"
  /\ coIdx < Len(Pending)
  /\ LET op == toPushOperation(Pending[coIdx + 1])
         r == ServerBatch(srvSeq, <<op>>, srvPolicy)
     IN srvSeq' = r.rows
  /\ coIdx' = coIdx + 1
  /\ UNCHANGED <<srv, coSent>>
  /\ CUnchangedStore

\* the pending operations are pushed as one coalesced batch
CoSendCoalesced ==
  /\ calls["c1"].pc = "idle"
  /\ ~coSent
  /\ Pending # <<>>
  /\ LET toSend == coalesceOperations(Pending).toSend
         r == ServerBatch(srv, toPushOperations(toSend), srvPolicy)
     IN srv' = r.rows
  /\ coSent' = TRUE
  /\ UNCHANGED <<srvSeq, coIdx>>
  /\ CUnchangedStore

(***************************************************************************)
(* PullService: syncInitialSnapshot and pullIncremental, from await to     *)
(* await, against the server's change log.  Processing one operation of a  *)
(* page (applyOperation or rebaseEntity) is one step.  The log and the     *)
(* endpoints /sync/pull and /sync/snapshot follow specification sections   *)
(* 4.5 and 6; the backend is not part of the sources.                      *)
(***************************************************************************)
NoPull ==
  [pending |-> <<>>, sinceSyncId |-> 0, maxSyncId |-> 0, page |-> <<>>,
   hasMore |-> FALSE]

Max(a, b) == IF a > b THEN a ELSE b

(* ---- the server ---- *)

\* the push operation another client sends for the entity
OtherClientOp(id, type) ==
  [id |-> 0, entity_type |-> "pre_order", entity_id |-> id,
   operation_type |-> type,
   data |-> CASE type = "CREATE" -> [k \in PRE_ORDER_UPDATEABLE_FIELDS |-> 0]
              [] type = "UPDATE" -> [k \in {"status"} |-> 1]
              [] type = "DELETE" -> <<>>,
   expected_version |-> srv[id].version]

\* the log entry of an accepted mutation
ServerLogEntry(log, op, newVersion) ==
  [sync_id |-> Len(log) + 1, entity_type |-> op.entity_type,
   entity_id |-> op.entity_id, operation_type |-> op.operation_type,
   data |-> [f |-> op.data, version |-> newVersion, deleted_at |-> Undef,
             pre_order_id |-> NoId]]

\* GET /sync/pull?since&limit
ServerPull(log, since, limit) ==
  LET rest == SubSeq(log, since + 1, Len(log))
  IN [operations |-> SubSeq(rest, 1, Min(limit, Len(rest))),
      has_more |-> Len(rest) > limit]

\* another client's push is accepted and logged
OtherClientWrites ==
  /\ Len(srvLog) < MaxLog
  /\ \E id \in OrderIds, type \in OperationTypes :
       LET op == OtherClientOp(id, type)
           r == ServerApply(srv[id], op, srvPolicy)
       IN /\ ~srv[id].deleted
          /\ r.res.status = "success"
          /\ srv' = [srv EXCEPT ![id] = r.e]
          /\ srvLog' = Append(srvLog,
                              ServerLogEntry(srvLog, op, r.res.new_version))
  /\ UNCHANGED <<qvars, tvars, avars, cvars>>
  /\ UNCHANGED <<outbox, calls, pushPc, pushSend, pushRemove, pushResp,
                 pushResult, pendingOps, srvPolicy, rowChanges, callsMade>>
  /\ UNCHANGED <<lastSyncId, pullPc, pullCtx, pullStart, aborts, pullDone>>

(* ---- rebaseEntity ---- *)

\* pendingByEntity.get(entityKey) || []
localOpsOf(pending, op) ==
  SeqFilter(pending, <<op.entity_type, op.entity_id>>, TRUE)

\* only the updatable fields are written, version and timestamps stay
reapplyLocalUpdate(tables, localOp) ==
  LET id == localOp.entity_id IN
  IF ~tables.orders[id].present THEN tables
  ELSE [tables EXCEPT !.orders[id].f =
          Merge(@, pickFields(localOp.data.f, PRE_ORDER_UPDATEABLE_FIELDS))]

\* soft delete with version + 1 and the cascade on the flows of the order,
\* the writes of the DELETE branch of applyPreOrderOperation
reapplyLocalDelete(tables, localOp, t) ==
  applyPreOrderOperation(tables.orders, tables.flows, localOp.entity_id,
                         "DELETE", localOp.data, t)

reapplyLocalOperation(tables, localOp, t) ==
  CASE localOp.operation_type = "UPDATE" -> reapplyLocalUpdate(tables, localOp)
    [] localOp.operation_type = "DELETE" ->
         reapplyLocalDelete(tables, localOp, t)
    [] OTHER -> tables

RECURSIVE reapplyAll(_, _, _)
reapplyAll(tables, localOps, t) ==
  IF localOps = <<>> THEN tables
  ELSE reapplyAll(reapplyLocalOperation(tables, Head(localOps), t),
                  Tail(localOps), t)

\* getEntity(...) # null
entityExists(tables, op) ==
  \/ op.entity_type = "pre_order" /\ tables.orders[op.entity_id].present
  \/ op.entity_type = "pre_order_flow" /\ tables.flows[op.entity_id].present

\* a rebase that settles the operations it has re-applied
rebaseOutbox_SettlesRebased(ob, localOps) ==
  [i \in DOMAIN ob |->
     IF ob[i].id \in IdsOf(localOps) THEN [ob[i] EXCEPT !.status = "synced"]
     ELSE ob[i]]

\* the outbox table after rebaseEntity: the local operations are re-applied
\* to the entity tables only, no write goes to the outbox
rebaseOutbox(ob, localOps) == ob

rebaseEntity(tables, serverOp, localOps, t) ==
  LET applied == applyOperation(tables.orders, tables.flows, serverOp, t)
  IN IF ~entityExists(applied, serverOp) THEN applied
     ELSE reapplyAll(applied, localOps, t)

\* the body of the loop over response.operations
processPullOperation(tables, op, pending, t) ==
  LET localOps == localOpsOf(pending, op)
  IN IF Len(localOps) > 0 THEN rebaseEntity(tables, op, localOps, t)
     ELSE applyOperation(tables.orders, tables.flows, op, t)

(* ---- syncInitialSnapshot ---- *)

\* populateDatabase: bulkPut of the rows of the snapshot with version 1
populateDatabase(orders, rows, t) ==
  [id \in DOMAIN orders |->
     IF rows[id].present
     THEN [present |-> TRUE, f |-> rows[id].f, version |-> 1,
           deleted_at |-> IF rows[id].deleted THEN t ELSE Null]
     ELSE orders[id]]

PUnchangedQueue ==
  UNCHANGED <<connection, pushIntervalId, sseConnected, pullDebounceTimer,
              debounceTimeouts, sseBurst,
              syncQueue, isProcessingSyncQueue, running, isPushing,
              syncState, lastError, snapChecking, snapFetching, onlineWait,
              nextTicket, lastStarted, onlineOrder, stopPhase, stopMark,
              afterStop, snapshot>>

PUnchangedRest ==
  /\ PUnchangedQueue
  /\ UNCHANGED <<avars, svars, cvars, now, srvLog, pullStart>>

\* start(): hasLocalData() is false, isSyncing is taken
SnapBegin ==
  /\ pullPc = "idle"
  /\ ~hasSyncTs
  /\ ~pullIsSyncing
  /\ pullIsSyncing' = TRUE
  /\ pullPc' = "snapshot"
  /\ UNCHANGED <<hasSyncTs, pre_orders, pre_order_flows, lastSyncId, pullCtx,
                 aborts, pullDone>>
  /\ PUnchangedRest

\* api.getSnapshot() has answered and populateDatabase has written
SnapPopulate ==
  /\ pullPc = "snapshot"
  /\ pre_orders' = populateDatabase(pre_orders, srv, now)
  /\ pullPc' = "snapstamp"
  /\ UNCHANGED <<hasSyncTs, pullIsSyncing, pre_order_flows, lastSyncId,
                 pullCtx, aborts, pullDone>>
  /\ PUnchangedRest

\* last_sync_timestamp is written; finally
SnapStamp ==
  /\ pullPc = "snapstamp"
  /\ hasSyncTs' = TRUE
  /\ pullIsSyncing' = FALSE
  /\ pullPc' = "idle"
  /\ UNCHANGED <<pre_orders, pre_order_flows, lastSyncId, pullCtx, aborts,
                 pullDone>>
  /\ PUnchangedRest

(* ---- pullIncremental ---- *)

\* isSyncing is taken, getPendingOperations is awaited
PullBegin ==
  /\ pullPc = "idle"
  /\ ~pullIsSyncing
  /\ pullIsSyncing' = TRUE
  /\ pullPc' = "pending"
  /\ pullCtx' = NoPull
  /\ pullDone' = FALSE
  /\ UNCHANGED <<hasSyncTs, pre_orders, pre_order_flows, lastSyncId, aborts>>
  /\ PUnchangedRest

\* the pending operations are grouped; getLastSyncId is awaited
PullReadPending ==
  /\ pullPc = "pending"
  /\ pullCtx' = [pullCtx EXCEPT !.pending = getPendingOperations(outbox, now)]
  /\ pullPc' = "cursor"
  /\ UNCHANGED <<hasSyncTs, pullIsSyncing, pre_orders, pre_order_flows,
                 lastSyncId, aborts, pullDone>>
  /\ PUnchangedRest

\* the cursor is read; api.pullOperations is awaited
PullReadCursor ==
  /\ pullPc = "cursor"
  /\ pullCtx' = [pullCtx EXCEPT !.sinceSyncId = lastSyncId,
                                !.maxSyncId = lastSyncId]
  /\ pullPc' = "fetch"
  /\ UNCHANGED <<hasSyncTs, pullIsSyncing, pre_orders, pre_order_flows,
                 lastSyncId, aborts, pullDone>>
  /\ PUnchangedRest

\* a page has arrived: an empty one ends the loop
PullFetch ==
  /\ pullPc = "fetch"
  /\ LET response == ServerPull(srvLog, pullCtx.sinceSyncId, PageLimit)
     IN IF Len(response.operations) = 0
        THEN /\ pullPc' = "stamp"
             /\ UNCHANGED pullCtx
        ELSE /\ pullPc' = "apply"
             /\ pullCtx' = [pullCtx EXCEPT !.page = response.operations,
                                           !.hasMore = response.has_more]
  /\ UNCHANGED <<hasSyncTs, pullIsSyncing, pre_orders, pre_order_flows,
                 lastSyncId, aborts, pullDone>>
  /\ PUnchangedRest

\* the next operation of the page is applied or rebased
PullApply ==
  /\ pullPc = "apply"
  /\ LET op == Head(pullCtx.page)
         r == processPullOperation([orders |-> pre_orders,
                                    flows |-> pre_order_flows],
                                   op, pullCtx.pending, now)
     IN /\ pre_orders' = r.orders
        /\ pre_order_flows' = r.flows
        /\ pullCtx' = [pullCtx EXCEPT
                         !.maxSyncId = Max(pullCtx.maxSyncId, op.sync_id),
                         !.page = Tail(pullCtx.page)]
  /\ outbox' = rebaseOutbox(outbox,
                             localOpsOf(pullCtx.pending, Head(pullCtx.page)))
  /\ pullPc' = IF Len(pullCtx.page) = 1 THEN "persist" ELSE "apply"
  /\ UNCHANGED <<hasSyncTs, pullIsSyncing, lastSyncId, aborts, pullDone>>
  /\ PUnchangedQueue
  /\ UNCHANGED <<avars, cvars, now, srvLog, pullStart>>
  /\ UNCHANGED <<calls, pushPc, pushSend, pushRemove, pushResp, pushResult,
                 pendingOps, srv, srvPolicy, rowChanges, callsMade>>

\* a loop that persists the cursor and asks for the same page again
PullPersist_SamePage ==
  /\ pullPc = "persist"
  /\ lastSyncId' = pullCtx.maxSyncId
  /\ pullPc' = IF pullCtx.hasMore THEN "fetch" ELSE "stamp"
  /\ UNCHANGED <<hasSyncTs, pullIsSyncing, pre_orders, pre_order_flows,
                 aborts, pullDone, pullCtx>>
  /\ PUnchangedRest

\* setLastSyncId(maxSyncId) has written; the loop goes on while has_more
PullPersist ==
  /\ pullPc = "persist"
  /\ lastSyncId' = pullCtx.maxSyncId
  /\ pullCtx' = [pullCtx EXCEPT !.sinceSyncId = pullCtx.maxSyncId]
  /\ pullPc' = IF pullCtx.hasMore THEN "fetch" ELSE "stamp"
  /\ UNCHANGED <<hasSyncTs, pullIsSyncing, pre_orders, pre_order_flows,
                 aborts, pullDone>>
  /\ PUnchangedRest

\* last_sync_timestamp is written; finally; the pull has completed
PullStamp ==
  /\ pullPc = "stamp"
  /\ hasSyncTs' = TRUE
  /\ pullIsSyncing' = FALSE
  /\ pullPc' = "idle"
  /\ pullDone' = TRUE
  /\ UNCHANGED <<pre_orders, pre_order_flows, lastSyncId, pullCtx, aborts>>
  /\ PUnchangedRest

\* the operation awaited (store read or write, request) is rejected: the
\* error leaves pullIncremental or syncInitialSnapshot.  The finally block
\* releases isSyncing, except for getPendingOperations, which pullIncremental
\* awaits before its try block
PullFails ==
  /\ pullPc # "idle"
  /\ aborts < MaxAborts
  /\ aborts' = aborts + 1
  /\ pullIsSyncing' = (pullPc = "pending")
  /\ pullPc' = "idle"
  /\ UNCHANGED <<hasSyncTs, pre_orders, pre_order_flows, lastSyncId, pullCtx,
                 pullDone>>
  /\ PUnchangedRest

(* ---- what the tables hold when each entry was taken in once ---- *)

RECURSIVE Replay(_, _, _, _)
\* the operations processed one after the other, each once
Replay(tables, ops, pending, t) ==
  IF ops = <<>> THEN tables
  ELSE Replay(processPullOperation(tables, Head(ops), pending, t),
              Tail(ops), pending, t)


(* ---- the recap query of the UI ---- *)

\* the orders read from pre_orders (by delivery date, one date here) and the
\* flows read from pre_order_flows for those orders; the rows are returned as
\* they are stored
getRecapFromLocalDb(orders, flows) ==
  LET preOrderIds == {id \in DOMAIN orders : orders[id].present}
  IN [pre_orders |-> preOrderIds,
      flows |-> {fl \in DOMAIN flows :
                   /\ flows[fl].present
                   /\ flows[fl].pre_order_id \in preOrderIds}]
(***************************************************************************)
(* The outbox helpers of SyncDB on their own.  Records are added, marked   *)
(* and failed in any order the helpers allow, the clock advances, and      *)
(* getPendingOperations is read.                                           *)
(***************************************************************************)
OUnchangedRest ==
  UNCHANGED <<qvars, tvars, avars, cvars, pvars, calls, pushPc, pushSend,
              pushRemove, pushResp, pushResult, srv, srvPolicy, rowChanges,
              callsMade>>

RECURSIVE SumRetries(_)
\* failures recorded in the outbox
SumRetries(ob) ==
  IF ob = <<>> THEN 0 ELSE Head(ob).retry_count + SumRetries(Tail(ob))

\* addOutboxOperation
OutboxAdd ==
  /\ Len(outbox) < MaxRecords
  /\ outbox' = Append(outbox,
                      OutboxRecord(outbox, getNextSequenceNumber(outbox), "o1",
                                   "UPDATE", [f |-> <<>>, version |-> 1]))
  /\ UNCHANGED pendingOps
  /\ OUnchangedRest

\* markOperationsSyncing for an operation getPendingOperations returns
OutboxMarkSyncing ==
  /\ \E i \in DOMAIN outbox :
       /\ IsPending(outbox[i], now)
       /\ outbox' = markOperations(outbox, {i}, "syncing")
  /\ UNCHANGED pendingOps
  /\ OUnchangedRest

\* markOperationSynced / markOperationRejected for an operation that was sent
OutboxMarkResult ==
  /\ \E i \in DOMAIN outbox :
       /\ outbox[i].status = "syncing"
       /\ \/ outbox' = markOperations(outbox, {i}, "synced")
          \/ outbox' = markOperationRejected(outbox, i, ServerMessage("error"))
  /\ UNCHANGED pendingOps
  /\ OUnchangedRest

\* markOperationFailed(operationId, errorMessage) for any operation, or for
\* an id the outbox does not hold
OutboxFail ==
  /\ SumRetries(outbox) < MaxFails
  /\ \E i \in 1..MaxRecords :
       outbox' = markOperationFailed(outbox, i, now, PushError)
  /\ UNCHANGED pendingOps
  /\ OUnchangedRest

\* getPendingOperations()
OutboxRead ==
  /\ pendingOps' = getPendingOperations(outbox, now)
  /\ UNCHANGED outbox
  /\ OUnchangedRest

(***************************************************************************)
(* The ways a push ends without its catch block: the response carries no   *)
(* result for the operations sent, the store rejects the first write of    *)
(* processOperationResult, or the page is reloaded while the push runs.    *)
(* The outbox is in IndexedDB and survives; the state of PushService is    *)
(* in memory and does not.                                                 *)
(***************************************************************************)

\* response.results is empty: the loops over the results do nothing and
\* pushOperations returns
PushResponseOmits ==
  /\ pushPc = "response"
  /\ pushResp' = <<>>
  /\ pushResult' = [successCount |-> 0, failedCount |-> 0]
  /\ pushPc' = "idle"
  /\ UNCHANGED <<outbox, pre_orders, pushSend, pushRemove, srv, srvPolicy>>
  /\ SUnchangedRepo /\ SUnchangedRest

\* every processOperationResult rejects at its first store call:
\* Promise.allSettled reports them rejected and each counts as failed
PushReconcileThrows ==
  /\ pushPc = "response"
  /\ pushResult' = [successCount |-> 0, failedCount |-> Len(pushResp)]
  /\ pushResp' = <<>>
  /\ pushPc' = "idle"
  /\ UNCHANGED <<outbox, pre_orders, pushSend, pushRemove, srv, srvPolicy>>
  /\ SUnchangedRepo /\ SUnchangedRest

\* the page is reloaded during a push, no repository call being under way:
\* a new PushService starts from the stored outbox
Restart ==
  /\ pushPc # "idle"
  /\ calls["c1"].pc = "idle"
  /\ pushPc' = "idle"
  /\ pushSend' = <<>>
  /\ pushRemove' = {}
  /\ pushResp' = <<>>
  /\ pushResult' = NoResult
  /\ UNCHANGED <<outbox, pre_orders, srv, srvPolicy>>
  /\ SUnchangedRepo /\ SUnchangedRest

\* another client pushes a one-field UPDATE of the synced order, which the
\* server accepts: the order is now ahead of the local row
OtherClientEdits ==
  /\ srv["o2"].present /\ ~srv["o2"].deleted
  /\ srv["o2"].version <= MaxVersion
  /\ \E k \in PRE_ORDER_UPDATEABLE_FIELDS : \E v \in Vals :
       srv' = [srv EXCEPT !["o2"] = ServerWrite(@, [x \in {k} |-> v])]
  /\ UNCHANGED <<outbox, pre_orders, pushPc, pushSend, pushRemove, pushResp,
                 pushResult, srvPolicy>>
  /\ SUnchangedRepo /\ SUnchangedRest

\* another client's UPDATE of the comment of the synced order is accepted
\* and logged
OtherClientComments ==
  /\ Len(srvLog) < MaxLog
  /\ srv["o2"].present /\ ~srv["o2"].deleted
  /\ LET op == [OtherClientOp("o2", "UPDATE") EXCEPT
                  !.data = [k \in {"comment"} |-> 1]]
         r == ServerApply(srv["o2"], op, srvPolicy)
     IN /\ r.res.status = "success"
        /\ srv' = [srv EXCEPT !["o2"] = r.e]
        /\ srvLog' = Append(srvLog,
                            ServerLogEntry(srvLog, op, r.res.new_version))
  /\ UNCHANGED <<qvars, tvars, avars, cvars>>
  /\ UNCHANGED <<outbox, calls, pushPc, pushSend, pushRemove, pushResp,
                 pushResult, pendingOps, srvPolicy, rowChanges, callsMade>>
  /\ UNCHANGED <<lastSyncId, pullPc, pullCtx, pullStart, aborts, pullDone>>
(***************************************************************************)
(* Retries.  The pushes of one caller's operations when the transport      *)
(* fails: no operation meets more than MAX_RETRIES failures, the clock     *)
(* moves on to the next retry date, and pushes keep being started.         *)
(***************************************************************************)

\* the retry dates that are still ahead
RetryDates ==
  {outbox[i].next_retry_at :
     i \in {j \in DOMAIN outbox : /\ outbox[j].status = "failed"
                                  /\ outbox[j].next_retry_at # Null
                                  /\ outbox[j].next_retry_at > DateNow(now)}}

\* time passes until the earliest retry date
RetryWait ==
  /\ RetryDates # {}
  /\ now' = (CHOOSE d \in RetryDates : \A e \in RetryDates : d <= e) \div 1000
  /\ UNCHANGED <<pre_orders, pre_order_flows, svars, qvars, avars, cvars,
                 pvars>>

\* api.syncPush rejects, for operations that have retries left
RetryTransportFails ==
  /\ \A j \in DOMAIN pushSend :
        outbox[pushSend[j].id].retry_count < MAX_RETRIES
  /\ PushTransportFails

\* the results are reconciled and last_push_timestamp is written
RetryReconcile == PushReconcile /\ pushPc' = "idle"

\* no push has been started yet
Editing == pushPc = "idle" /\ pushSend = <<>> /\ pushRemove = {}

\* the repository call is still running
InCall == calls["c1"].pc # "idle"

(***************************************************************************)
(* The push task of the SyncManager run on the outbox: the closure of      *)
(* SyncManager.push around PushService.pushOperations.  The task record of *)
(* running is at "p_read" while pushOperations runs and at "p_count"       *)
(* while updatePendingCount is awaited.                                    *)
(***************************************************************************)

\* what the push task leaves alone
StUnchanged ==
  /\ QUnchangedTimers /\ QUnchangedSnap
  /\ UNCHANGED <<tvars, avars, cvars, pvars>>
  /\ UNCHANGED <<outbox, calls, pushSend, pushRemove, pushResp, srv,
                 srvPolicy, rowChanges, callsMade>>

\* pushOperations is awaited by the task
InPush == \E r \in running : r.pc = "p_read"

\* pushOperations awaits its getPendingOperations
AwaitsPending == InPush /\ pushPc = "idle" /\ pushResult = NoResult

\* pushOperations has returned its result after a batch
Returned == InPush /\ pushPc = "idle" /\ pushResult # NoResult

\* SyncManager.push() with an empty queue: the task starts, pushOperations
\* initialises its result and awaits getPendingOperations
StatusPushStart ==
  /\ running = {} /\ syncQueue = <<>>
  /\ Budget
  /\ Commit(push(Ctx, "manual"))
  /\ pushResult' = NoResult
  /\ UNCHANGED <<pushPc, pendingOps>>
  /\ StUnchanged

\* "const result = await this.pushService.pushOperations()" continues:
\* nothing was pending, or the batch has been handled
StatusPushReturn(r) ==
  /\ r \in running /\ r.pc = "p_read"
  /\ \/ Returned
     \/ AwaitsPending /\ getPendingOperations(outbox, now) = <<>>
  /\ Commit([Ctx EXCEPT !.run = (@ \ {r}) \cup {[r EXCEPT !.pc = "p_count"]},
                        !.err = FALSE])
  /\ UNCHANGED <<pushPc, pushResult, pendingOps>>
  /\ StUnchanged

\* updatePendingCount has answered: state idle, notify, finally
StatusPushCount(r) ==
  /\ r \in running /\ r.pc = "p_count"
  /\ pendingOps' = getPendingOperations(outbox, now)
  /\ Commit(TaskEnd([notify(updateState(Ctx, "idle")) EXCEPT !.isP = FALSE],
                    r, TRUE))
  /\ UNCHANGED <<pushPc, pushResult>>
  /\ StUnchanged

\* a store call awaited outside the try block of pushOperations, in its
\* catch block or by updatePendingCount is rejected: the task throws
StatusPushThrow(r) ==
  /\ r \in running
  /\ \/ r.pc = "p_count"
     \/ AwaitsPending
     \/ r.pc = "p_read" /\ pushPc \in {"remove", "syncing", "failed"}
  /\ Commit(PushTaskThrow(Ctx, r))
  /\ pushPc' = "idle"
  /\ UNCHANGED <<pushResult, pendingOps>>
  /\ StUnchanged

\* status.pendingOperations
pendingOperations == Len(pendingOps)
(***************************************************************************)
(* coalesceOperations applied to the pending operations of one entity.     *)
(* The operations are appended in sequence order with the data and the     *)
(* timestamp Repository.recordOperation gives them; pendingOps holds the   *)
(* group, pushSend and pushRemove what coalesceOperations returns for it.  *)
(***************************************************************************)

\* the field bags written by the operations of a group
GroupFields ==
  {[k \in {"status"} |-> 1], [k \in {"comment"} |-> 1],
   [k \in PRE_ORDER_UPDATEABLE_FIELDS |-> 0]}

\* the data of an operation: the entity for CREATE and UPDATE, the version
\* alone for DELETE
GroupData(type) ==
  IF type = "DELETE" THEN {[f |-> <<>>, version |-> v] : v \in 1..MaxVersion}
  ELSE {[f |-> b, version |-> v] : b \in GroupFields, v \in 1..MaxVersion}

\* the operation types that may follow the group: CREATE comes first,
\* nothing follows the DELETE
GroupNext(group) ==
  IF group = <<>> THEN {"CREATE", "UPDATE"}
  ELSE IF group[Len(group)].operation_type = "DELETE" THEN {}
  ELSE {"UPDATE", "DELETE"}

\* recordOperation: the record with timestamp new Date()
GroupRecord(group, type, data, t) ==
  Spread(OutboxRecord(group, getNextSequenceNumber(group), "o1", type, data),
         [k \in {"timestamp"} |-> DateNow(t)])

GUnchangedRest ==
  UNCHANGED <<qvars, avars, cvars, pvars, pre_orders, pre_order_flows, outbox,
              calls, pushPc, pushResp, pushResult, srv, srvPolicy, rowChanges,
              callsMade>>

\* one more operation on the entity is pending
GroupAppend ==
  /\ Len(pendingOps) < MaxGroup
  /\ pushSend = <<>> /\ pushRemove = {}
  /\ \E type \in GroupNext(pendingOps) :
       \E data \in GroupData(type) :
          pendingOps' = Append(pendingOps,
                               GroupRecord(pendingOps, type, data, now))
  /\ UNCHANGED <<pushSend, pushRemove, now>>
  /\ GUnchangedRest

\* coalesceOperations(operations)
GroupCoalesce ==
  /\ pendingOps # <<>>
  /\ \E co \in {coalesceOperations(pendingOps)} :
       /\ pushSend' = co.toSend
       /\ pushRemove' = co.toRemoveIds
  /\ UNCHANGED <<pendingOps, now>>
  /\ GUnchangedRest
QueueStart(conn, ts) ==
  /\ connection = conn
  /\ pushIntervalId = FALSE
  /\ sseConnected = FALSE
  /\ pullDebounceTimer = FALSE
  /\ debounceTimeouts = 0
  /\ sseBurst = FALSE
  /\ syncQueue = <<>>
  /\ isProcessingSyncQueue = FALSE
  /\ running = {}
  /\ isPushing = FALSE
  /\ pullIsSyncing = FALSE
  /\ syncState = "idle"
  /\ lastError = FALSE
  /\ snapChecking = 0
  /\ snapFetching = FALSE
  /\ hasSyncTs = ts
  /\ onlineWait = {}
  /\ nextTicket = 1
  /\ lastStarted = 0
  /\ onlineOrder = <<>>
  /\ stopPhase = "running"
  /\ stopMark = 0
  /\ afterStop = {}
  /\ snapshot = [state |-> "idle", connection |-> conn, lastError |-> FALSE,
                 pullSyncing |-> FALSE]

TablesEmpty ==
  /\ pre_orders = [i \in OrderIds |-> NoOrder]
  /\ pre_order_flows = [i \in FlowIds |-> NoFlow]
  /\ now = 1

ApplyIdle ==
  /\ aOp = CHOOSE op \in ServerOps : TRUE
  /\ aApplied = 0
  /\ aOnce = <<>>

StoreIdle ==
  /\ outbox = <<>>
  /\ calls = [c \in Callers |-> IdleCall]
  /\ pushPc = "idle"
  /\ pushSend = <<>>
  /\ pushRemove = {}
  /\ pushResp = <<>>
  /\ pushResult = NoResult
  /\ pendingOps = <<>>
  /\ srv = [i \in OrderIds |-> NoEntity]
  /\ rowChanges = [i \in OrderIds |-> 0]
  /\ callsMade = 0

CoalesceIdle ==
  /\ srvSeq = [i \in OrderIds |-> NoEntity]
  /\ coIdx = 0
  /\ coSent = FALSE

PullIdle ==
  /\ srvLog = <<>>
  /\ lastSyncId = 0
  /\ pullPc = "idle"
  /\ pullCtx = NoPull
  /\ pullStart = [orders |-> pre_orders, flows |-> pre_order_flows,
                  cursor |-> 0]
  /\ aborts = 0
  /\ pullDone = FALSE

\* the SyncManager before start(), for the specifications of the services
QueueIdle == QueueStart("offline", FALSE)

InitQueue ==
  /\ \E conn \in {"online", "offline"}, ts \in BOOLEAN : QueueStart(conn, ts)
  /\ TablesEmpty
  /\ ApplyIdle
  /\ StoreIdle /\ srvPolicy = "apply"
  /\ CoalesceIdle
  /\ PullIdle

\* SSE events arrive more than the debounce delay apart here; bursts are
\* the subject of SpecDebounce
NextQueue ==
  \/ TimerTick
  \/ ManualPush
  \/ ManualPull
  \/ OnlineEvent
  \/ OfflineEvent
  \/ ~pullDebounceTimer /\ SSEEvent
  \/ DebounceFire
  \/ Start
  \/ Stop
  \/ \E r \in running : PushRead(r)
  \/ \E r \in running : PushHttp(r)
  \/ \E r \in running : PushCount(r)
  \/ \E r \in running : PullRead(r)
  \/ \E r \in running : PullHttp(r)
  \/ SnapCheck
  \/ SnapFetch

SpecQueue == InitQueue /\ [][NextQueue]_vars

\* the orchestrator under bursts of SSE events: the push timer and the
\* manual push are left out, every other event is as in SpecQueue
NextDebounce ==
  \/ SSEEvent
  \/ DebounceFire
  \/ ManualPull
  \/ OnlineEvent
  \/ OfflineEvent
  \/ Start
  \/ Stop
  \/ \E r \in running : PushRead(r)
  \/ \E r \in running : PushHttp(r)
  \/ \E r \in running : PushCount(r)
  \/ \E r \in running : PullRead(r)
  \/ \E r \in running : PullHttp(r)
  \/ SnapCheck
  \/ SnapFetch

SpecDebounce == InitQueue /\ [][NextDebounce]_vars


InitApply ==
  /\ QueueIdle
  /\ StoreIdle /\ srvPolicy = "apply"
  /\ CoalesceIdle
  /\ pre_orders \in {[i \in OrderIds |-> IF i = "o1" THEN r ELSE NoOrder] :
                       r \in OrderRows}
  /\ pre_order_flows \in [FlowIds -> FlowRows]
  /\ now = 1
  /\ aOp \in ServerOps
  /\ aApplied = 0
  /\ aOnce = <<>>
  /\ PullIdle

NextApply ==
  \/ ApplyServerOp
  \/ ClockTick

SpecApply == InitApply /\ [][NextApply]_vars

InitStore ==
  /\ QueueIdle
  /\ TablesEmpty
  /\ ApplyIdle
  /\ StoreIdle
  /\ srvPolicy \in {"apply", "error"}
  /\ CoalesceIdle
  /\ PullIdle

NextStore ==
  \/ \E c \in Callers : RepoCreate(c)
  \/ \E c \in Callers : RepoUpdateGet(c)
  \/ \E c \in Callers : RepoUpdatePut(c)
  \/ \E c \in Callers : RepoDeleteGet(c)
  \/ \E c \in Callers : RepoReadSeq(c)
  \/ \E c \in Callers : RepoAddOutbox(c)
  \/ \E c \in Callers : RepoDeleteRow(c)
  \/ \E c \in Callers : RepoFails(c)
  \/ PushBegin
  \/ PushMarkRemoved
  \/ PushMarkSyncing
  \/ ServerPush
  \/ PushTransportFails
  \/ PushReconcile
  \/ PushMarkFailed
  \/ StoreTick

SpecStore == InitStore /\ [][NextStore]_vars

\* the outbox helpers of SyncDB applied in any order
InitOutbox ==
  /\ QueueIdle
  /\ TablesEmpty
  /\ ApplyIdle
  /\ StoreIdle
  /\ srvPolicy = "apply"
  /\ CoalesceIdle
  /\ PullIdle

NextOutbox ==
  \/ OutboxAdd
  \/ OutboxMarkSyncing
  \/ OutboxMarkResult
  \/ OutboxFail
  \/ OutboxRead
  \/ StoreTick

SpecOutbox == InitOutbox /\ [][NextOutbox]_vars



InitCoalesce ==
  /\ QueueIdle
  /\ ApplyIdle
  /\ \E synced \in BOOLEAN : CoalesceStart(synced)
  /\ PullIdle
  /\ srvPolicy \in {"apply", "error"}

NextCoalesce ==
  \/ Offline /\ RepoCreate("c1")
  \/ Offline /\ RepoUpdateGet("c1")
  \/ Offline /\ RepoUpdatePut("c1")
  \/ Offline /\ RepoDeleteGet("c1")
  \/ Offline /\ RepoReadSeq("c1")
  \/ Offline /\ RepoAddOutbox("c1")
  \/ Offline /\ RepoDeleteRow("c1")
  \/ CoSendSequential
  \/ CoSendCoalesced

SpecCoalesce == InitCoalesce /\ [][NextCoalesce]_vars

\* one caller making at most MaxBatch repository calls on a store that is
\* empty or holds a synced order; the pushes are those of SpecStore
BatchRoom == callsMade < MaxBatch

NextBatch ==
  \/ BatchRoom /\ RepoCreate("c1")
  \/ BatchRoom /\ RepoUpdateGet("c1")
  \/ RepoUpdatePut("c1")
  \/ BatchRoom /\ RepoDeleteGet("c1")
  \/ RepoReadSeq("c1")
  \/ RepoAddOutbox("c1")
  \/ RepoDeleteRow("c1")
  \/ RepoFails("c1")
  \/ PushBegin
  \/ PushMarkRemoved
  \/ PushMarkSyncing
  \/ ServerPush
  \/ PushTransportFails
  \/ PushReconcile
  \/ PushMarkFailed
  \/ StoreTick

SpecBatch == InitCoalesce /\ [][NextBatch]_vars

\* the caller edits before the first push: SpecBatch with transport failures
\* only, and the clock of RetryWait
NextRetry ==
  \/ Editing /\ BatchRoom /\ RepoCreate("c1")
  \/ Editing /\ BatchRoom /\ RepoUpdateGet("c1")
  \/ Editing /\ RepoUpdatePut("c1")
  \/ Editing /\ BatchRoom /\ RepoDeleteGet("c1")
  \/ Editing /\ RepoReadSeq("c1")
  \/ Editing /\ RepoAddOutbox("c1")
  \/ Editing /\ RepoDeleteRow("c1")
  \/ ~InCall /\ PushBegin
  \/ PushMarkRemoved
  \/ PushMarkSyncing
  \/ ServerPush
  \/ RetryTransportFails
  \/ RetryReconcile
  \/ PushMarkFailed
  \/ RetryWait

\* a step the scheduling of the code makes happen: the store call or the HTTP
\* call that is awaited settles, the push timer starts a push, time passes
RetryProgress ==
  \/ Editing /\ RepoUpdatePut("c1")
  \/ Editing /\ RepoReadSeq("c1")
  \/ Editing /\ RepoAddOutbox("c1")
  \/ Editing /\ RepoDeleteRow("c1")
  \/ ~InCall /\ PushBegin
  \/ PushMarkRemoved
  \/ PushMarkSyncing
  \/ ServerPush
  \/ RetryTransportFails
  \/ RetryReconcile
  \/ PushMarkFailed
  \/ RetryWait

RetryFairness == WF_vars(RetryProgress)

SpecRetry == InitCoalesce /\ [][NextRetry]_vars /\ RetryFairness

\* the order "o2" was created, pushed and pulled back, and has since been
\* updated locally: the UPDATE is pending
EditedRow == [SyncedRow EXCEPT !.f["status"] = 1, !.version = 2]

EditedRecord ==
  OutboxRecord(<<SyncedRecord>>, 2, "o2", "UPDATE",
               [f |-> EditedRow.f, version |-> 2])

SyncedLogEntry ==
  ServerLogEntry(<<>>, [entity_type |-> "pre_order", entity_id |-> "o2",
                        operation_type |-> "CREATE", data |-> SyncedFields], 1)

\* a fresh database, or one that holds the order "o2" with a pending UPDATE
PullStartState(edited) ==
  /\ QueueStart("online", edited)
  /\ pre_order_flows = [i \in FlowIds |-> NoFlow]
  /\ now = 1
  /\ pre_orders = [i \in OrderIds |->
                     IF edited /\ i = "o2" THEN EditedRow ELSE NoOrder]
  /\ outbox = IF edited THEN <<SyncedRecord, EditedRecord>> ELSE <<>>
  /\ srv = [i \in OrderIds |->
              IF edited /\ i = "o2" THEN SyncedEntity ELSE NoEntity]
  /\ rowChanges = [i \in OrderIds |-> IF edited /\ i = "o2" THEN 2 ELSE 0]
  /\ calls = [c \in Callers |-> IdleCall]
  /\ callsMade = 0
  /\ pushPc = "idle"
  /\ pushSend = <<>>
  /\ pushRemove = {}
  /\ pushResp = <<>>
  /\ pushResult = NoResult
  /\ pendingOps = <<>>
  /\ srvPolicy = "apply"
  /\ srvLog = IF edited THEN <<SyncedLogEntry>> ELSE <<>>
  /\ lastSyncId = Len(srvLog)
  /\ pullPc = "idle"
  /\ pullCtx = NoPull
  /\ pullStart = [orders |-> pre_orders, flows |-> pre_order_flows,
                  cursor |-> lastSyncId]
  /\ aborts = 0
  /\ pullDone = FALSE

InitPull ==
  /\ \E edited \in BOOLEAN : PullStartState(edited)
  /\ ApplyIdle
  /\ CoalesceIdle

NextPull ==
  \/ OtherClientWrites
  \/ SnapBegin
  \/ SnapPopulate
  \/ SnapStamp
  \/ PullBegin
  \/ PullReadPending
  \/ PullReadCursor
  \/ PullFetch
  \/ PullApply
  \/ PullPersist
  \/ PullStamp
  \/ PullFails

SpecPull == InitPull /\ [][NextPull]_vars

\* the push task of the SyncManager on the outbox of SpecBatch: the manager
\* is online and started, pushes follow one another
InitStatus ==
  /\ QueueStart("online", TRUE)
  /\ ApplyIdle
  /\ \E synced \in BOOLEAN : CoalesceStart(synced)
  /\ PullIdle
  /\ srvPolicy \in {"apply", "error"}

NextStatus ==
  \/ BatchRoom /\ RepoCreate("c1")
  \/ BatchRoom /\ RepoUpdateGet("c1")
  \/ RepoUpdatePut("c1")
  \/ BatchRoom /\ RepoDeleteGet("c1")
  \/ RepoReadSeq("c1")
  \/ RepoAddOutbox("c1")
  \/ RepoDeleteRow("c1")
  \/ StatusPushStart
  \/ AwaitsPending /\ PushBegin
  \/ InPush /\ PushMarkRemoved
  \/ InPush /\ PushMarkSyncing
  \/ InPush /\ ServerPush
  \/ InPush /\ PushTransportFails
  \/ InPush /\ PushReconcile
  \/ InPush /\ PushMarkFailed
  \/ \E r \in running : StatusPushReturn(r)
  \/ \E r \in running : StatusPushCount(r)
  \/ \E r \in running : StatusPushThrow(r)
  \/ StoreTick

SpecStatus == InitStatus /\ [][NextStatus]_vars

\* coalesceOperations on the groups of one entity
NextGroup ==
  \/ GroupAppend
  \/ GroupCoalesce
  \/ StoreTick

SpecGroup == InitOutbox /\ [][NextGroup]_vars

\* SpecBatch with the pushes that end without their catch block
NextRestart ==
  \/ BatchRoom /\ RepoCreate("c1")
  \/ BatchRoom /\ RepoUpdateGet("c1")
  \/ RepoUpdatePut("c1")
  \/ BatchRoom /\ RepoDeleteGet("c1")
  \/ RepoReadSeq("c1")
  \/ RepoAddOutbox("c1")
  \/ RepoDeleteRow("c1")
  \/ PushBegin
  \/ PushMarkRemoved
  \/ PushMarkSyncing
  \/ ServerPush
  \/ PushTransportFails
  \/ PushReconcile
  \/ PushMarkFailed
  \/ PushResponseOmits
  \/ PushReconcileThrows
  \/ Restart
  \/ StoreTick

SpecRestart == InitCoalesce /\ [][NextRestart]_vars

\* updates of the synced order pushed while another client changes it on the
\* server
InitConflict ==
  /\ QueueIdle
  /\ ApplyIdle
  /\ CoalesceStart(TRUE)
  /\ PullIdle
  /\ srvPolicy = "apply"

NextConflict ==
  \/ BatchRoom /\ RepoUpdateGet("c1")
  \/ RepoUpdatePut("c1")
  \/ RepoReadSeq("c1")
  \/ RepoAddOutbox("c1")
  \/ OtherClientEdits
  \/ PushBegin
  \/ PushMarkRemoved
  \/ PushMarkSyncing
  \/ ServerPush
  \/ PushTransportFails
  \/ PushReconcile
  \/ PushMarkFailed
  \/ StoreTick

SpecConflict == InitConflict /\ [][NextConflict]_vars

\* SpecConflict with deletions of the synced order
NextRestore ==
  \/ BatchRoom /\ RepoUpdateGet("c1")
  \/ RepoUpdatePut("c1")
  \/ BatchRoom /\ RepoDeleteGet("c1")
  \/ RepoReadSeq("c1")
  \/ RepoAddOutbox("c1")
  \/ RepoDeleteRow("c1")
  \/ OtherClientEdits
  \/ PushBegin
  \/ PushMarkRemoved
  \/ PushMarkSyncing
  \/ ServerPush
  \/ PushTransportFails
  \/ PushReconcile
  \/ PushMarkFailed
  \/ StoreTick

SpecRestore == InitConflict /\ [][NextRestore]_vars

\* SpecPull on the database that holds the edited order, with another client
\* that also writes the comment
InitRebase ==
  /\ PullStartState(TRUE)
  /\ ApplyIdle
  /\ CoalesceIdle

NextRebase ==
  \/ OtherClientWrites
  \/ OtherClientComments
  \/ PullBegin
  \/ PullReadPending
  \/ PullReadCursor
  \/ PullFetch
  \/ PullApply
  \/ PullPersist
  \/ PullStamp
  \/ PullFails

SpecRebase == InitRebase /\ [][NextRebase]_vars

\* the steps of pullIncremental: the store call or the request that is
\* awaited settles
PullProgress ==
  \/ PullReadPending
  \/ PullReadCursor
  \/ PullFetch
  \/ PullApply
  \/ PullPersist
  \/ PullStamp

PullFairness == WF_vars(PullProgress)

\* SpecPull in which every awaited call of pullIncremental settles
SpecPullFair == InitPull /\ [][NextPull]_vars /\ PullFairness
(***************************************************************************)
(* Claims about the SyncManager, checked under SpecQueue.                  *)
(***************************************************************************)

\* C1: the tasks of the sync queue run one at a time and in arrival order:
\* at most one task (push or pull) is suspended inside its fn() at any
\* moment, it is the task started last, and every task still queued arrived
\* after it and after the tasks queued before it.
C1_QueueSerialized ==
  /\ Cardinality(running) <= 1
  /\ \A r \in running : r.ticket = lastStarted /\ isProcessingSyncQueue
  /\ \A i \in 1..Len(syncQueue) :
        /\ syncQueue[i].ticket > lastStarted
        /\ i > 1 => syncQueue[i - 1].ticket < syncQueue[i].ticket
  /\ syncQueue # <<>> => running # {}

\* a push is in flight while a pull and another push wait behind it
C1_Witness ==
  /\ \E r \in running : r.type = "push" /\ r.pc = "p_http"
  /\ Len(syncQueue) >= 2
  /\ \E i, j \in 1..Len(syncQueue) :
        syncQueue[i].type = "pull" /\ syncQueue[j].type = "push"

\* C9 as stated: after stop() returns no HTTP request, store write or
\* subscriber notification originates from the orchestrator.
C9_NoEffectAfterStop == stopPhase # "running" => afterStop = {}

\* C9 amended: after stop() and until the next start() or online event the
\* interval timer and the debounce timer are cancelled, SSE is disconnected
\* and the tasks queued at the time are dropped: what is queued or started
\* afterwards comes from a push()/pull() call or from an online handler
\* continuing after the push it awaited; a task that was in flight when
\* stop() was called still runs to its end.
C9_StopQuiesces ==
  stopPhase = "stopped" =>
    /\ ~pushIntervalId /\ ~pullDebounceTimer /\ ~sseConnected
    /\ \A i \in 1..Len(syncQueue) :
          /\ syncQueue[i].ticket >= stopMark
          /\ syncQueue[i].origin \in {"manual", "online"}
    /\ \A r \in running :
          r.ticket < stopMark \/ r.origin \in {"manual", "online"}

\* a task in flight at stop() has made a request or a write since
C9_Witness ==
  /\ stopPhase = "stopped"
  /\ afterStop \cap {"http", "write"} # {}
  /\ \E r \in running : r.ticket < stopMark /\ r.origin = "timer"

\* C10 as stated: the online handler enqueues a push, then a pull, then
\* connects SSE.
C10_PushPullThenSSE ==
  /\ Len(onlineOrder) >= 1 => onlineOrder[1] = "push"
  /\ Len(onlineOrder) >= 2 => onlineOrder[2] = "pull"

\* C10 amended: an offline -> online transition connects SSE and then
\* enqueues a push; the pull is enqueued when that push task has ended
\* without error and the connection is still online, and only then; an
\* online -> offline transition disconnects SSE.
C10_OnlineOfflineHandlers ==
  [][ /\ (connection = "offline" /\ connection' = "online") =>
            /\ sseConnected'
            /\ onlineOrder' = <<"sse", "push">>
            /\ nextTicket' = nextTicket + 1
            /\ \/ nextTicket \in onlineWait'
               \/ \E r \in running' : r.ticket = nextTicket
               \/ \E i \in 1..Len(syncQueue') :
                     syncQueue'[i].ticket = nextTicket
      /\ (connection = "online" /\ connection' = "offline") => ~sseConnected'
      /\ \A r \in running :
            ( /\ r.type = "push" /\ r.ticket \in onlineWait
              /\ \A r2 \in running' : r2.ticket # r.ticket ) =>
               ( (~lastError' /\ connection = "online")
                 <=> /\ onlineOrder' = Append(onlineOrder, "pull")
                     /\ nextTicket' = nextTicket + 1 )
    ]_vars

\* the handler has connected SSE, its push has ended and its pull is queued
\* or running
C10_Witness ==
  /\ onlineOrder = <<"sse", "push", "pull">>
  /\ sseConnected
  /\ \E r \in running : r.type = "pull" /\ r.origin = "online"

(***************************************************************************)
(* Claims about applyOperation, checked under SpecApply.                   *)
(***************************************************************************)

\* C8 as stated: applying a server operation a second time leaves the two
\* tables (fields, version and deleted_at of the entity and of the cascaded
\* order lines) as the first application left them.
C8_ApplyTwiceIsApplyOnce ==
  aApplied = 2 => <<pre_orders, pre_order_flows>> = aOnce

(***************************************************************************)
(* Claims about the repositories, the outbox and the push, checked under   *)
(* SpecStore.                                                              *)
(***************************************************************************)

\* C2 as stated: the status of an outbox operation changes only along
\* pending -> syncing, syncing -> synced, syncing -> failed,
\* syncing -> rejected and failed -> pending, so that a synced or rejected
\* operation keeps its status for ever.
C2_StatusEdges ==
  [][\A i \in DOMAIN outbox :
       \/ outbox'[i].status = outbox[i].status
       \/ <<outbox[i].status, outbox'[i].status>> \in
             { <<"pending", "syncing">>, <<"syncing", "synced">>,
               <<"syncing", "failed">>, <<"syncing", "rejected">>,
               <<"failed", "pending">> }]_vars

\* C3 as stated: the records of the outbox carry the sequence numbers 1..n
\* in the order they were appended (strictly increasing, distinct, no gap).
C3_SequenceNumbers ==
  \A i \in DOMAIN outbox : outbox[i].sequence_number = i

\* C4 as stated: when no repository call is running, every entity-row write
\* of a repository has its outbox record and every outbox record its
\* entity-row write.
C4_RowAndOutboxTogether ==
  (\A c \in Callers : calls[c].pc = "idle") =>
     \A id \in OrderIds :
        rowChanges[id] =
          Cardinality({i \in DOMAIN outbox : outbox[i].entity_id = id})

\* C6 as stated: when every outbox operation of an entity is synced (and
\* nothing is running), the local version of the entity is the server's.
C6_DrainedVersionsMatch ==
  \A id \in OrderIds :
     ( /\ pre_orders[id].present
       /\ \A c \in Callers : calls[c].pc = "idle"
       /\ pushPc = "idle"
       /\ \E i \in DOMAIN outbox : outbox[i].entity_id = id
       /\ \A i \in DOMAIN outbox :
            outbox[i].entity_id = id => outbox[i].status = "synced" )
     => pre_orders[id].version = srv[id].version


(***************************************************************************)
(* Claims about coalescing, checked under SpecCoalesce.                    *)
(***************************************************************************)

\* C5 as stated: once the pending operations have been sent both ways, as
\* the coalesced batch and one by one, every entity is in the same final
\* state on the two servers: deleted (or never created) on both, or live on
\* both with the same field values.
C5_CoalescedEqualsSequential ==
  (coSent /\ coIdx = Len(Pending)) =>
     \A id \in OrderIds :
        LET live(e) == e.present /\ ~e.deleted
        IN /\ live(srv[id]) = live(srvSeq[id])
           /\ live(srv[id]) => srv[id].f = srvSeq[id].f

(***************************************************************************)
(* Claims about the pull, checked under SpecPull.                          *)
(***************************************************************************)

\* C7 as stated: when a pullIncremental has completed with last_sync_id = S,
\* the tables hold what taking in every log entry up to S exactly once, in
\* order, gives (none skipped, none applied twice), whatever pulls, aborted
\* pulls or snapshot came before.
C7_ReflectedExactlyOnce ==
  pullDone =>
     LET expected ==
           Replay([orders |-> pullStart.orders, flows |-> pullStart.flows],
                  SubSeq(srvLog, pullStart.cursor + 1, lastSyncId),
                  getPendingOperations(outbox, now), now)
     IN /\ pre_orders = expected.orders
        /\ pre_order_flows = expected.flows

\* ---------------------------------------------------------------------------
\* C11 as stated: a burst of SSE events ends in exactly one enqueued pull
\* when the debounce timer fires.
C11_OnePullPerBurst ==
  [][DebounceFire => nextTicket' = nextTicket + 1]_vars

\* the pull task the debounce callback enqueues
SsePull == [type |-> "pull", ticket |-> nextTicket,
            origin |-> SseOrigin(sseBurst)]

\* C11: an SSE event enqueues nothing and leaves exactly one debounce
\* timeout scheduled; when the timeout fires no timeout remains, and exactly
\* one pull is enqueued if the connection is online at that moment, none if
\* it is offline.
C11_DebounceOnePull ==
  [][ /\ SSEEvent => /\ nextTicket' = nextTicket
                     /\ syncQueue' = syncQueue
                     /\ debounceTimeouts' = 1
                     /\ pullDebounceTimer'
      /\ DebounceFire =>
           /\ debounceTimeouts' = 0
           /\ ~pullDebounceTimer'
           /\ IF connection = "online"
                THEN /\ nextTicket' = nextTicket + 1
                     /\ \/ \E i \in DOMAIN syncQueue' : syncQueue'[i] = SsePull
                        \/ lastStarted' = nextTicket
                ELSE /\ nextTicket' = nextTicket
                     /\ syncQueue' = syncQueue ]_vars

\* the timeout of a burst of at least two events has fired and the pull it
\* enqueued is the last task
C11_Witness ==
  /\ debounceTimeouts = 0
  /\ ~pullDebounceTimer
  /\ \/ \E i \in DOMAIN syncQueue :
          syncQueue[i] = [type |-> "pull", ticket |-> nextTicket - 1,
                          origin |-> "sse_burst"]
     \/ \E r \in running : r.ticket = nextTicket - 1
                             /\ r.origin = "sse_burst"

\* ---------------------------------------------------------------------------
RECURSIVE WithoutErrors(_, _, _)
\* the entries of s whose result in the response is not an error result
WithoutErrors(s, resp, i) ==
  IF i > Len(resp) THEN <<>>
  ELSE (IF resp[i].status # "error" THEN <<s[i]>> ELSE <<>>)
       \o WithoutErrors(s, resp, i + 1)

\* the operations of the response that got an error result
ErrorIds == {pushResp[i].operation_id :
               i \in {j \in DOMAIN pushResp : pushResp[j].status = "error"}}

\* C12: when the response holds an error result, its operation is marked
\* rejected with the server message and never changes or is sent again, and
\* the other results are reconciled exactly as if the error result were absent.
C12_ErrorRejectedOthersReconciled ==
  [][ /\ PushReconcile =>
           LET rest == processResults(pre_orders, outbox,
                                      WithoutErrors(pushResp, pushResp, 1),
                                      WithoutErrors(pushSend, pushResp, 1))
           IN /\ \A i \in DOMAIN pushResp :
                   pushResp[i].status = "error" =>
                     /\ outbox'[pushResp[i].operation_id].status = "rejected"
                     /\ outbox'[pushResp[i].operation_id].last_error
                          = pushResp[i].message
              /\ pre_orders' = rest.orders
              /\ \A k \in DOMAIN outbox :
                   k \notin ErrorIds => outbox'[k] = rest.outbox[k]
      /\ \A k \in DOMAIN outbox :
           outbox[k].status = "rejected" /\ outbox[k].last_error = "server: error"
             => /\ outbox'[k] = outbox[k]
                /\ \A j \in DOMAIN pushSend' :
                     pushSend' # pushSend => pushSend'[j].id # k ]_vars

\* ---------------------------------------------------------------------------
\* the catch block is about to run and nothing of the response was reconciled
TransportFailed ==
  /\ pushPc = "failed"
  /\ \A j \in DOMAIN pushSend : outbox[pushSend[j].id].status = "syncing"

\* C13: when POST /sync/push fails in transport, every operation sent in the
\* batch is marked failed with the error message and its retry_count is
\* incremented by one, none stays syncing, synced or rejected, and the result
\* reports failedCount = number of sent operations.
C13_TransportFailureMarksAllFailed ==
  [][ /\ PushTransportFails => TransportFailed'
      /\ (PushMarkFailed /\ TransportFailed) =>
           /\ \A j \in DOMAIN pushSend :
                LET k == pushSend[j].id
                IN /\ outbox'[k].status = "failed"
                   /\ outbox'[k].retry_count = outbox[k].retry_count + 1
                   /\ outbox'[k].last_error = PushError
           /\ pushResult'.failedCount = Len(pushSend)
           /\ pushResult'.successCount = 0
           /\ pushPc' = "idle" ]_vars

\* a batch of two operations was lost on its way to the server and both
\* were marked failed
C13_Witness ==
  /\ pushPc = "idle"
  /\ Len(pushSend) = 2
  /\ \A j \in DOMAIN pushSend :
       /\ outbox[pushSend[j].id].status = "failed"
       /\ outbox[pushSend[j].id].retry_count = 1
  /\ pushResult.failedCount = 2
  /\ ~srv["o1"].present
  /\ \E j \in DOMAIN pushSend : pushSend[j].entity_id = "o1"

\* ---------------------------------------------------------------------------
\* C14: the k-th markOperationFailed of an operation sets retry_count = k and,
\* for k = 1..5, next_retry_at = now + 1 s, 2 s, 4 s, 8 s, 16 s; the 6th and
\* every later failure sets next_retry_at = null.
C14_BackoffSchedule ==
  [][OutboxFail =>
       \A i \in DOMAIN outbox :
          outbox'[i] # outbox[i] =>
            LET k == outbox[i].retry_count + 1
            IN /\ outbox'[i].retry_count = k
               /\ outbox'[i].status = "failed"
               /\ k \in 1..5 =>
                    outbox'[i].next_retry_at
                      = now * 1000 + <<1000, 2000, 4000, 8000, 16000>>[k]
               /\ k >= 6 => outbox'[i].next_retry_at = Null]_vars

\* an operation has failed six times and the sixth failure has left it
\* without a retry date
C14_Witness ==
  \E i \in DOMAIN outbox :
     /\ outbox[i].status = "failed"
     /\ outbox[i].retry_count = 6
     /\ outbox[i].next_retry_at = Null

\* ---------------------------------------------------------------------------
\* the operations getPendingOperations has to return at the time of the call
Eligible ==
  {outbox[i] : i \in {j \in DOMAIN outbox :
      \/ outbox[j].status = "pending"
      \/ /\ outbox[j].status = "failed"
         /\ outbox[j].next_retry_at # Null
         /\ outbox[j].next_retry_at <= now * 1000}}

\* C15: getPendingOperations returns exactly the operations that are pending,
\* or failed with a next_retry_at that is set and not after now, in ascending
\* order of sequence_number; it never returns an operation with
\* retry_count > 5 nor a syncing, synced or rejected one.
C15_PendingOperations ==
  [][OutboxRead =>
       /\ {pendingOps'[j] : j \in DOMAIN pendingOps'} = Eligible
       /\ Len(pendingOps') = Cardinality(Eligible)
       /\ \A a, b \in DOMAIN pendingOps' :
            a < b => pendingOps'[a].sequence_number
                       <= pendingOps'[b].sequence_number
       /\ \A j \in DOMAIN pendingOps' :
            /\ pendingOps'[j].retry_count <= 5
            /\ pendingOps'[j].status \notin {"syncing", "synced", "rejected"}
  ]_vars

\* the call returned a failed operation whose retry date has come and left
\* out one that has run out of retries
C15_Witness ==
  /\ pendingOps = getPendingOperations(outbox, now)
  /\ \E j \in DOMAIN pendingOps : /\ pendingOps[j].status = "failed"
                                  /\ pendingOps[j].retry_count = 1
  /\ \E i \in DOMAIN outbox : /\ outbox[i].retry_count > 5
                              /\ outbox[i].next_retry_at = Null
                              /\ outbox[i].status = "failed"

\* ---------------------------------------------------------------------------
\* C16: when the transport fails a finite number of times (at most five for
\* an operation) and pushes keep being started, every operation that is
\* pending, syncing or failed is eventually synced or rejected.
C16_RetriedUntilSettled ==
  \A i \in 1..(MaxBatch + 1) :
     (i \in DOMAIN outbox /\ outbox[i].status \in {"pending", "syncing",
                                                    "failed"})
       ~> (i \in DOMAIN outbox /\ outbox[i].status \in {"synced", "rejected"})

\* an operation was synced by the push that followed its fifth failure
C16_Witness ==
  \E i \in DOMAIN outbox : /\ outbox[i].status = "synced"
                           /\ outbox[i].retry_count = MAX_RETRIES
                           /\ now >= 32

\* ---------------------------------------------------------------------------
\* the pending operations of an order, in the order getPendingOperations
\* returns them
PendingOf(id) == SeqFilter(Pending, <<"pre_order", id>>, TRUE)

\* the pending operations of the order start with CREATE and end with DELETE
Cancels(id) ==
  /\ PendingOf(id) # <<>>
  /\ PendingOf(id)[1].operation_type = "CREATE"
  /\ PendingOf(id)[Len(PendingOf(id))].operation_type = "DELETE"

\* C17: when the pending operations of an entity start with its CREATE and
\* end with its DELETE, the push sends no operation of that entity and marks
\* every outbox row of the group synced.
C17_CreateDeleteCancels ==
  [][ /\ PushBegin =>
           \A id \in OrderIds :
              Cancels(id) =>
                /\ \A j \in DOMAIN pushSend' : pushSend'[j].entity_id # id
                /\ IdsOf(PendingOf(id)) \subseteq pushRemove'
                /\ pushPc' = "remove"
      /\ PushMarkRemoved =>
           /\ \A k \in pushRemove : outbox'[k].status = "synced"
           /\ pushSend' = pushSend
           /\ srv' = srv ]_vars

\* an order was created and deleted before the push: its two rows are synced
\* and the server never heard of it
C17_Witness ==
  /\ pushPc = "idle"
  /\ Cardinality(pushRemove) = 2
  /\ \A k \in pushRemove : /\ outbox[k].status = "synced"
                            /\ outbox[k].entity_id = "o1"
  /\ \E k \in pushRemove : outbox[k].operation_type = "CREATE"
  /\ \E k \in pushRemove : outbox[k].operation_type = "DELETE"
  /\ ~srv["o1"].present

\* ---------------------------------------------------------------------------
\* the operations of a request keep the outbox order across entities
KeepsOrderAcrossEntities(toSend) ==
  \A a, b \in DOMAIN toSend :
     ( /\ Key(toSend[a]) # Key(toSend[b])
       /\ toSend[a].sequence_number < toSend[b].sequence_number ) => a < b

\* C18: of two operations of different entities that are both sent in a push
\* batch, the one with the lower sequence_number comes first in the request.
C18_NoReorderAcrossEntities ==
  [][CoSendCoalesced =>
       KeepsOrderAcrossEntities(coalesceOperations(Pending).toSend)]_vars

\* ---------------------------------------------------------------------------
\* a step of pullIncremental
PullStep ==
  \/ PullBegin
  \/ PullReadPending
  \/ PullReadCursor
  \/ PullFetch
  \/ PullApply
  \/ PullPersist
  \/ PullStamp
  \/ PullFails

\* C19: no step of pullIncremental, apply and rebase included, adds, removes
\* or modifies an outbox record, and when the pull completes the pending
\* operations are the ones it read when it started.
C19_PullKeepsOutbox ==
  [][ /\ PullStep => outbox' = outbox
      /\ PullStamp => getPendingOperations(outbox', now') = pullCtx.pending
    ]_vars

\* a pull has rebased the edited order on another client's write and has
\* completed; the outbox is what it was
C19_Witness ==
  /\ pullDone
  /\ lastSyncId > 1
  /\ \E k \in 2..lastSyncId : localOpsOf(pullCtx.pending, srvLog[k]) # <<>>
  /\ outbox = <<SyncedRecord, EditedRecord>>

\* ---------------------------------------------------------------------------
\* C20: the recap query never returns an order or an order line whose
\* deleted_at is set, whatever the local store holds.
C20_RecapHidesDeleted ==
  LET recap == getRecapFromLocalDb(pre_orders, pre_order_flows)
  IN /\ \A id \in recap.pre_orders : pre_orders[id].deleted_at = Null
     /\ \A fl \in recap.flows : pre_order_flows[fl].deleted_at = Null

\* ---------------------------------------------------------------------------
\* the catch block of pushOperations has run for the batch that was sent
BatchFailed ==
  /\ pushSend # <<>>
  /\ pushResult = [successCount |-> 0, failedCount |-> Len(pushSend)]
  /\ \A i \in DOMAIN pushSend : outbox[pushSend[i].id].status = "failed"

\* the server answered error for an operation of the batch, which is rejected
SomeRejected ==
  \E i \in DOMAIN pushSend : outbox[pushSend[i].id].status = "rejected"

\* C21: when the push task ends after a push whose transport failed, the
\* status is error with lastError set, and after a push in which the server
\* answered error for an operation, lastError is set.
C21_FailureInStatus ==
  [][\A r \in running :
       StatusPushCount(r) =>
         /\ BatchFailed => (syncState' = "error" /\ lastError')
         /\ SomeRejected => lastError']_vars

\* C22: after each push, status.pendingOperations counts every operation
\* that still awaits synchronisation, the failed ones whose retry date is in
\* the future included, and a rejected operation stays rejected.
AwaitsSync(o) ==
  \/ o.status = "pending"
  \/ o.status = "failed" /\ o.retry_count < MAX_RETRIES

C22_PendingCountsScheduledRetries ==
  [][\A r \in running :
       StatusPushCount(r) =>
         /\ pendingOperations' =
              Cardinality({i \in DOMAIN outbox' : AwaitsSync(outbox'[i])})
         /\ \A i \in DOMAIN outbox :
              outbox[i].status = "rejected" => outbox'[i].status = "rejected"
    ]_vars

\* ---------------------------------------------------------------------------
\* the step in which the push task r throws
PushTaskFails(r) ==
  /\ r \in running /\ r.type = "push"
  /\ Commit(PushTaskThrow(Ctx, r))

\* the step in which pullIncremental throws in the pull task r: before its
\* try block, or from its catch block
PullTaskFails(r) ==
  /\ r \in running /\ r.type = "pull"
  /\ \/ r.pc = "l_read" /\ Commit(TaskEnd(Ctx, r, FALSE))
     \/ r.pc = "l_http" /\ Commit(TaskEnd([Ctx EXCEPT !.isS = FALSE], r, FALSE))

\* C23: when a push or pull task fails, the error is recorded in the status
\* (lastError set, state error until the next push task starts), the tasks
\* queued behind it go on being processed, and the timer, connectivity and
\* SSE triggers stay as they are.
C23_FailureRecordedQueueGoesOn ==
  [][\A r \in running :
       (PushTaskFails(r) \/ PullTaskFails(r)) =>
         /\ lastError'
         /\ \/ syncState' = "error"
            \/ \E n \in running' \ running : n.type = "push"
         /\ syncQueue' # <<>> => (isProcessingSyncQueue' /\ running' # {})
         /\ UNCHANGED <<pushIntervalId, sseConnected, pullDebounceTimer,
                        debounceTimeouts>>]_vars

\* ---------------------------------------------------------------------------
\* C24: the version of a local order is a positive integer, and as long as
\* the row stays in the table no step lowers it.
C24_VersionNeverDecreases ==
  [][\A id \in OrderIds :
       /\ pre_orders'[id].present => pre_orders'[id].version >= 1
       /\ (pre_orders[id].present /\ pre_orders'[id].present) =>
            pre_orders'[id].version >= pre_orders[id].version]_vars

\* the types of the operations of a group, in order
GroupTypes(group) == [i \in 1..Len(group) |-> group[i].operation_type]

\* the last operation of the group that writes field k
LastWriter(group, k) ==
  CHOOSE i \in 1..Len(group) :
    /\ k \in DOMAIN group[i].data.f
    /\ \A j \in (i + 1)..Len(group) : k \notin DOMAIN group[j].data.f

\* op is the group merged into its first operation: the first operation's
\* id, sequence number, type and version, the last one's timestamp, and for
\* every field the value written last
MergedInto(op, group) ==
  /\ op.id = group[1].id
  /\ op.sequence_number = group[1].sequence_number
  /\ op.operation_type = group[1].operation_type
  /\ op.timestamp = group[Len(group)].timestamp
  /\ op.data.version = group[1].data.version
  /\ DOMAIN op.data.f = UNION {DOMAIN group[i].data.f : i \in 1..Len(group)}
  /\ \A k \in DOMAIN op.data.f :
       op.data.f[k] = group[LastWriter(group, k)].data.f[k]

\* what coalesceOperations returns for a group of one entity
CoalescedAsSpecified(group, toSend, toRemoveIds) ==
  /\ Len(group) = 1 => toSend = group
  /\ (/\ Len(group) > 1
      /\ \A i \in 2..Len(group) : group[i].operation_type = "UPDATE")
     => Len(toSend) = 1 /\ MergedInto(toSend[1], group)
  /\ (/\ Len(group) > 1
      /\ group[1].operation_type = "UPDATE"
      /\ group[Len(group)].operation_type = "DELETE")
     => toSend = <<group[Len(group)]>>
  /\ toRemoveIds = {group[i].id : i \in 1..Len(group)}
                     \ {toSend[j].id : j \in 1..Len(toSend)}

\* C25: for the pending operations of one entity in sequence order,
\* coalesceOperations returns the operation unchanged for a group of one; for
\* CREATE followed by UPDATEs one CREATE with the CREATE's id and sequence
\* number, the last operation's timestamp and the CREATE's data overwritten
\* field by field by each UPDATE in order, without the UPDATEs' versions; for
\* UPDATE...UPDATE one UPDATE with the first UPDATE's id and version, the last
\* one's timestamp and the data merged in order; for UPDATEs followed by
\* DELETE the DELETE alone, unchanged; and every operation that is not
\* returned is in the remove set.
C25_CoalesceAsSpecified ==
  [][GroupCoalesce =>
       CoalescedAsSpecified(pendingOps, pushSend', pushRemove')]_vars

\* a CREATE and two UPDATEs, the second UPDATE overwriting a field of the
\* first with another value and written at a later time, merged into one
C25_Witness ==
  /\ GroupTypes(pendingOps) = <<"CREATE", "UPDATE", "UPDATE">>
  /\ Len(pushSend) = 1 /\ Cardinality(pushRemove) = 2
  /\ pendingOps[3].timestamp > pendingOps[1].timestamp
  /\ pendingOps[3].data.version # pendingOps[1].data.version
  /\ \E k \in DOMAIN pendingOps[2].data.f \cap DOMAIN pendingOps[3].data.f :
       /\ pendingOps[2].data.f[k] # pendingOps[3].data.f[k]
       /\ pushSend[1].data.f[k] = pendingOps[3].data.f[k]

\* ---------------------------------------------------------------------------
\* no repository call and no push is under way and every operation of the
\* outbox is synced
Drained ==
  /\ pushPc = "idle"
  /\ calls["c1"].pc = "idle"
  /\ outbox # <<>>
  /\ \A i \in DOMAIN outbox : outbox[i].status = "synced"

\* C26: no locally committed mutation is lost through coalescing: when a push
\* that merged several operations of an entity fails in transport, the retry
\* still sends the fields of the operations coalesced away, so that once the
\* outbox has drained the server holds every locally committed field value
\* of the entity.
C26_NoMutationLostByCoalescing ==
  (srvPolicy = "apply" /\ Drained) =>
     \A id \in OrderIds :
        pre_orders[id].present =>
          /\ srv[id].present
          /\ srv[id].f = pre_orders[id].f

\* ---------------------------------------------------------------------------
\* the operation has failed and is not due: it waits for its next_retry_at or
\* has no retry left
Unacknowledged(o) == o.status = "failed" /\ ~IsPending(o, now)

\* C27: operations on the same entity reach the server in outbox order: a
\* push never sends an operation on an entity while an earlier operation on
\* that entity is failed and waiting for its next_retry_at, or terminally
\* failed.
C27_EntityOrderKept ==
  [][PushBegin =>
       \A j \in DOMAIN pushSend' :
          \A i \in DOMAIN outbox :
             ~ ( /\ Key(outbox[i]) = Key(pushSend'[j])
                 /\ outbox[i].sequence_number < pushSend'[j].sequence_number
                 /\ Unacknowledged(outbox[i]) )]_vars

\* ---------------------------------------------------------------------------
\* C28: whenever no push is executing (pushOperations has returned, whatever
\* the server answered, or the process was restarted during a push), no
\* outbox operation has status syncing.
C28_NoSyncingLeftBehind ==
  (pushPc = "idle" /\ ~InPush) =>
     \A i \in DOMAIN outbox : outbox[i].status # "syncing"

\* ---------------------------------------------------------------------------
\* the result of position j is a conflict on a CREATE or an UPDATE
ConflictHandled(j) ==
  /\ pushResp[j].status = "conflict"
  /\ pushSend[j].operation_type # "DELETE"

DeleteRefused(j) ==
  /\ pushResp[j].status = "conflict"
  /\ pushSend[j].operation_type = "DELETE"

\* C30: for a conflict result on a DELETE, the locally deleted entity is
\* restored (deleted_at = null, version = new_version) so that it is present
\* and visible again in the local store, and the DELETE operation is marked
\* rejected and never re-sent.
C30_RefusedDeleteRestores ==
  [][ /\ PushReconcile =>
           \A j \in DOMAIN pushResp :
              DeleteRefused(j) =>
                LET id == pushSend[j].entity_id
                IN /\ outbox'[pushSend[j].id].status = "rejected"
                   /\ pre_orders'[id].present
                   /\ pre_orders'[id].deleted_at = Null
                   /\ pre_orders'[id].version = pushResp[j].new_version
      /\ PushBegin =>
           \A j \in DOMAIN pushSend' :
              outbox[pushSend'[j].id].status # "rejected" ]_vars

\* ---------------------------------------------------------------------------
\* C31: Repository.update writes the merged row with version =
\* current.version + 1 and appends one UPDATE outbox record whose data carries
\* version = current.version, the version the row had before the update, so
\* that the pushed expected_version equals that version.
C31_UpdateRecordsPreVersion ==
  [][ /\ RepoUpdatePut("c1") =>
           pre_orders'[calls["c1"].entity_id].version
             = calls["c1"].row.version
      /\ (RepoAddOutbox("c1") /\ calls["c1"].operation = "UPDATE") =>
           LET rec == outbox'[Len(outbox')]
           IN /\ Len(outbox') = Len(outbox) + 1
              /\ rec.operation_type = "UPDATE"
              /\ toPushOperation(rec).expected_version
                   = calls["c1"].row.version - 1 ]_vars

\* ---------------------------------------------------------------------------
\* C32: Repository.delete is a soft delete: it appends one DELETE outbox
\* record with data = {version: current.version} and keeps the row in the
\* local store with deleted_at = now and the version incremented by one.
C32_DeleteIsSoft ==
  [][ /\ (RepoAddOutbox("c1") /\ calls["c1"].operation = "DELETE") =>
           LET rec == outbox'[Len(outbox')]
           IN /\ Len(outbox') = Len(outbox) + 1
              /\ rec.operation_type = "DELETE"
              /\ rec.data = [f |-> <<>>, version |-> calls["c1"].row.version]
      /\ RepoDeleteRow("c1") =>
           LET id == calls["c1"].entity_id
           IN /\ pre_orders'[id].present
              /\ pre_orders'[id].deleted_at # Null
              /\ pre_orders'[id].version = calls["c1"].row.version + 1 ]_vars

\* ---------------------------------------------------------------------------
\* the fields the patches of the local updates write
LocalPatchFields == UNION {DOMAIN patch : patch \in UpdateInputs}

\* C33: when a pulled server operation targets an entity that has local
\* pending operations, the local row after the pull is the result of the
\* server operation with the fields written by each pending local UPDATE
\* re-applied on top and the version left at the server's value: a field the
\* server operation wrote and no local UPDATE changed has the server's value.
\* If the server operation deleted the entity, it stays deleted locally and
\* the pending operations stay in the outbox.
C33_RebaseKeepsServerFields ==
  [][PullApply =>
       LET op == Head(pullCtx.page)
           id == op.entity_id
           localOps == localOpsOf(pullCtx.pending, op)
       IN (localOps # <<>> /\ pre_orders[id].present) =>
            /\ outbox' = outbox
            /\ op.operation_type = "DELETE" =>
                 (pre_orders'[id].present =>
                    pre_orders'[id].deleted_at # Null)
            /\ (/\ op.operation_type = "UPDATE"
                /\ \A j \in DOMAIN localOps :
                      localOps[j].operation_type = "UPDATE") =>
                 /\ pre_orders'[id].version = op.data.version
                 /\ \A k \in LocalPatchFields :
                      pre_orders'[id].f[k]
                        = localOps[Len(localOps)].data.f[k]
                 /\ \A k \in (DOMAIN op.data.f) \ LocalPatchFields :
                      pre_orders'[id].f[k] = op.data.f[k] ]_vars

\* ---------------------------------------------------------------------------
\* C34: if applying or rebasing an operation fails during pullIncremental, the
\* pull aborts and the persisted last_sync_id equals the sync_id of the last
\* operation that was fully processed before the failure: no operation beyond
\* the cursor has been applied.
C34_CursorAtLastProcessed ==
  [][(PullFails /\ pullPc = "apply") =>
       /\ pullPc' = "idle"
       /\ lastSyncId' = pullCtx.maxSyncId ]_vars

\* ---------------------------------------------------------------------------
\* C35: a pullIncremental or syncInitialSnapshot invoked while another one is
\* in progress issues no request, and after any invocation has finished,
\* successfully or with an error raised at any step, the isSyncing flag is
\* false again, so that later pulls are not blocked.
C35_IsSyncingReleased ==
  /\ pullPc # "idle" => pullIsSyncing
  /\ pullPc = "idle" => ~pullIsSyncing

\* ---------------------------------------------------------------------------
\* every outbox operation of the entity is synced and the entity is deleted
\* locally
SettledAndDeleted(id) ==
  /\ pushPc = "idle"
  /\ calls["c1"].pc = "idle"
  /\ \E i \in DOMAIN outbox : outbox[i].entity_id = id
  /\ \A i \in DOMAIN outbox :
        outbox[i].entity_id = id => outbox[i].status = "synced"
  /\ ~pre_orders[id].present

\* C36: a CREATE...DELETE cancellation never leaves the entity alive on the
\* server: whenever every outbox operation of an entity is synced and the
\* entity is deleted locally, the server holds no non-deleted row for that
\* entity, also when an earlier push of the CREATE reached the server and its
\* response was lost.
C36_CancelledNotAliveOnServer ==
  \A id \in OrderIds :
     SettledAndDeleted(id) => ~(srv[id].present /\ ~srv[id].deleted)

\* ---------------------------------------------------------------------------
\* pullIncremental is between its first and its last await
Pulling == pullPc \in {"pending", "cursor", "fetch", "apply", "persist", "stamp"}

SnapshotLogicRunning == snapChecking > 0 \/ snapFetching

\* C38: start() runs the initial snapshot if and only if no snapshot has been
\* taken before, and the initial push begins only after the initial-snapshot
\* logic has finished, so that the snapshot's writes and the first push never
\* overlap.
C38_SnapshotBeforeFirstPush ==
  \A r \in running :
     (r.type = "push" /\ r.origin = "start") => ~SnapshotLogicRunning

\* ---------------------------------------------------------------------------
\* C39: every operation of a push request has expected_version = null if and
\* only if its operation_type is CREATE, and its data holds no version,
\* created_at or updated_at field.
C39_ExpectedVersionNullIffCreate ==
  pushPc = "request" =>
     \A j \in DOMAIN pushSend :
        LET op == toPushOperation(pushSend[j])
        IN /\ (op.expected_version \in {Null, Undef})
                <=> (op.operation_type = "CREATE")
           /\ DOMAIN op.data
                \cap {"version", "created_at", "updated_at"} = {}

\* C40: whenever a status field changes (state, connection, lastError,
\* pullSyncing), subscribers are notified and getSnapshot() returns a
\* snapshot equal to the current field values: at every await the stored
\* snapshot is what buildSnapshot would build now, and the snapshot is
\* replaced only by a notification.
C40_SnapshotCurrent == snapshot = buildSnapshot(Ctx)
====
